---- MODULE Spec2Model ----
(***************************************************************************)
(* Static-analysis engine of choidz/code_docs: function name resolution,   *)
(* two-pass dependency resolution (multi-file and single-file variants),   *)
(* call-hierarchy resolution, cycle detection over the module graph, and   *)
(* the request pipeline that reports an analysis result to the store.      *)
(*                                                                         *)
(* A parsed file is modelled by the pre-order sequence of the nodes the    *)
(* visitors look at (function-like nodes and call expressions).  Each      *)
(* element carries the Babel node, its immediate parent node and the       *)
(* nesting depth among the modelled nodes; a node's source span runs from  *)
(* its own position to the end of its subtree.                             *)
(***************************************************************************)
EXTENDS Integers, Sequences, FiniteSets, TLC

VARIABLES
    op,                   \* the operation that produced the current state
    files,                \* files: { name, content }[] handed to the resolver
    targetFuncName,       \* targetFuncName
    code,                 \* code: the single source handed to a one-file analysis
    result,               \* value returned by the operation
    calledFunctionNames,  \* calledFunctionNames when the operation returned
    pass2,                \* TRUE iff the second traversal (pass 2) was run
    nodePath,             \* the NodePath handed to getFunctionName
    dependencyMap,        \* dependencyMap: Map<string, string[]>, in insertion order
    params,               \* AnalysisParams of the request
    isElectron,           \* TRUE iff window.electronAPI exists
    store,                \* state of useAnalysisStore
    reply,                \* "analysis-result" message on its way to the renderer
    threshold,            \* threshold handed to findHubModules
    importerPath,         \* path of the importing file
    importPath,           \* specifier of the import declaration
    allFilePaths,         \* paths of the manifest (virtual) or of the files on disk
    lineCount,            \* code.split("\n").length
    engine,               \* the analysis step the request has entered
    keywordArray,         \* keywordArray handed to runAdvancedKeywordAnalysis
    filesToAnalyze        \* filesToAnalyze of the request being handled

vars == <<op, files, targetFuncName, code, result, calledFunctionNames, pass2,
          nodePath, dependencyMap, params, isElectron, store, reply, threshold,
          importerPath, importPath, allFilePaths,
          lineCount,
          engine,
          keywordArray,
          filesToAnalyze>>

-----------------------------------------------------------------------------
(* Bounds *)

MaxFiles == 2        \* files in one request
MaxNodes == 3        \* modelled nodes in one file
MaxTotalNodes == 4   \* modelled nodes in one request
MaxCodeNodes == 4    \* modelled nodes in the source of a one-file analysis
MaxImports == 2      \* resolved imports of one module

Names == {"A", "B"}

-----------------------------------------------------------------------------
(* Values *)

\* threshold: number = 5
DefaultThreshold == 5

Null == [null |-> TRUE]     \* null for object and text values
NullName == "<null>"        \* null where a name (string) is expected
NoEngine == "none"          \* no analysis step entered

Identifier(n) == [type |-> "Identifier", name |-> n]

isIdentifier(x) == x # Null /\ x.type = "Identifier"

FunctionTypes ==
    {"FunctionDeclaration", "FunctionExpression", "ArrowFunctionExpression",
     "ObjectMethod", "ClassMethod", "ClassPrivateMethod"}

isFunction(p) == p.node.type \in FunctionTypes
isFunctionDeclaration(n) == n.type = "FunctionDeclaration"
isFunctionExpression(n) == n.type = "FunctionExpression"
isArrowFunctionExpression(n) == n.type = "ArrowFunctionExpression"
isClassMethod(n) == n.type = "ClassMethod"
isVariableDeclarator(n) == n.type = "VariableDeclarator"
isObjectProperty(n) == n.type = "ObjectProperty"
isCallExpression(n) == n.type = "CallExpression"
isMemberExpression(n) == n.type = "MemberExpression"

-----------------------------------------------------------------------------
(* Function Name Resolver *)

\* getFunctionName of the multi-file resolver: case 4 accepts a function
\* expression or an arrow function as the value of an object property.
getFunctionName(path) ==
    LET node == path.node
        parent == path.parent
    IN  IF isFunctionDeclaration(node) /\ node.id # Null
        THEN node.id.name
        ELSE IF /\ (isFunctionExpression(node) \/ isArrowFunctionExpression(node))
                /\ isVariableDeclarator(parent)
                /\ isIdentifier(parent.id)
        THEN parent.id.name
        ELSE IF isClassMethod(node) /\ isIdentifier(node.key)
        THEN node.key.name
        ELSE IF /\ (isFunctionExpression(node) \/ isArrowFunctionExpression(node))
                /\ isObjectProperty(parent)
                /\ isIdentifier(parent.key)
        THEN parent.key.name
        ELSE NullName

\* getFunctionName of src/core/analysis.ts: case 4 accepts a function
\* expression only.
getFunctionNameCore(path) ==
    LET node == path.node
        parent == path.parent
    IN  IF isFunctionDeclaration(node) /\ node.id # Null
        THEN node.id.name
        ELSE IF /\ (isFunctionExpression(node) \/ isArrowFunctionExpression(node))
                /\ isVariableDeclarator(parent)
                /\ isIdentifier(parent.id)
        THEN parent.id.name
        ELSE IF isClassMethod(node) /\ isIdentifier(node.key)
        THEN node.key.name
        ELSE IF /\ isFunctionExpression(node)
                /\ isObjectProperty(parent)
                /\ isIdentifier(parent.key)
        THEN parent.key.name
        ELSE NullName

-----------------------------------------------------------------------------
(* Syntax trees *)

Program == [type |-> "Program"]

\* function f() {}
FunctionDeclaration(n, d) ==
    [node |-> [type |-> "FunctionDeclaration", id |-> Identifier(n)],
     parent |-> Program, depth |-> d]

\* const f = () => {}
ArrowVariable(n, d) ==
    [node |-> [type |-> "ArrowFunctionExpression"],
     parent |-> [type |-> "VariableDeclarator", id |-> Identifier(n)],
     depth |-> d]

\* g(function () {})
AnonymousArgument(d) ==
    [node |-> [type |-> "FunctionExpression", id |-> Null],
     parent |-> [type |-> "CallExpression"], depth |-> d]

\* f()
CallIdentifier(n, d) ==
    [node |-> [type |-> "CallExpression", callee |-> Identifier(n)],
     parent |-> [type |-> "ExpressionStatement"], depth |-> d]

\* x.f()
CallMember(n, d) ==
    [node |-> [type |-> "CallExpression",
               callee |-> [type |-> "MemberExpression",
                           property |-> Identifier(n)]],
     parent |-> [type |-> "ExpressionStatement"], depth |-> d]

\* x["f"]()  and  f()()
CallOther(d) ==
    [node |-> [type |-> "CallExpression",
               callee |-> [type |-> "MemberExpression",
                           property |-> [type |-> "StringLiteral"]]],
     parent |-> [type |-> "ExpressionStatement"], depth |-> d]

\* a token the parser cannot recover from
SyntaxError == [node |-> [type |-> "SyntaxError"], parent |-> Program, depth |-> 0]

\* The nodes a file of the dependency model is made of, at depth d.
DepNodes(d) ==
    {FunctionDeclaration(n, d) : n \in Names}
        \cup {AnonymousArgument(d)}
        \cup {CallIdentifier(n, d) : n \in Names}
        \cup {CallMember(n, d) : n \in Names}
        \cup {CallOther(d)}

\* Index of the nearest enclosing modelled node of position i (0: none).
Parent(content, i) ==
    LET above == {j \in 1..(i - 1) : content[j].depth < content[i].depth}
    IN  IF above = {} THEN 0 ELSE CHOOSE j \in above : \A k \in above : k <= j

\* Depths at which a node can follow content: top level, or inside a
\* function that is still open after the last node.
RECURSIVE OpenFunctions(_, _)
OpenFunctions(content, i) ==
    IF i = 0 THEN {}
    ELSE (IF isFunction(content[i]) THEN {i} ELSE {})
            \cup OpenFunctions(content, Parent(content, i))

NextDepths(content) ==
    {0} \cup {content[j].depth + 1 : j \in OpenFunctions(content, Len(content))}

\* parser.parse: throws on a source it cannot recover from.
parses(content) == \A i \in 1..Len(content) : content[i].node.type # "SyntaxError"

ParsesAll(fs) == \A k \in 1..Len(fs) : parses(fs[k].content)

\* node.end of the node at position i: the last position of its subtree.
SubtreeEnd(content, i) ==
    LET later == {j \in (i + 1)..Len(content) : content[j].depth <= content[i].depth}
    IN  IF later = {} THEN Len(content)
        ELSE (CHOOSE j \in later : \A k \in later : j <= k) - 1

\* content.slice(node.start, node.end)
Slice(content, i) == [text |-> SubSeq(content, i, SubtreeEnd(content, i))]

-----------------------------------------------------------------------------
(* Call-Site Collector *)

\* Name added by the CallExpression visitor for one call (NullName: none).
CalleeName(node) ==
    LET callee == node.callee
    IN  IF isMemberExpression(callee) /\ isIdentifier(callee.property)
        THEN callee.property.name
        ELSE IF isIdentifier(callee) THEN callee.name
        ELSE NullName

\* path.traverse({ CallExpression }) under the function at position i.
CalledNames(content, i) ==
    {CalleeName(content[j].node) :
        j \in {k \in (i + 1)..SubtreeEnd(content, i) :
                  isCallExpression(content[k].node)}} \ {NullName}

-----------------------------------------------------------------------------
(* Dependency Resolver, multi-file *)

Min(S) == CHOOSE x \in S : \A y \in S : x <= y

\* Pass 1 over asts[k..]: in every file that parsed, the traversal stops at
\* the first function named targetName; its span becomes findings.target and
\* the calls under it are added to calledFunctionNames.
RECURSIVE Pass1(_, _, _, _)
Pass1(fs, targetName, k, acc) ==
    IF k > Len(fs) THEN acc
    ELSE LET content == fs[k].content
             hits == {i \in 1..Len(content) :
                         /\ isFunction(content[i])
                         /\ getFunctionName(content[i]) = targetName}
         IN  IF ~parses(content) \/ hits = {}
             THEN Pass1(fs, targetName, k + 1, acc)
             ELSE Pass1(fs, targetName, k + 1,
                        [target |-> Slice(content, Min(hits)),
                         called |-> acc.called \cup CalledNames(content, Min(hits))])

\* As Pass2Nodes below, without the test for a name already emitted.
RECURSIVE Pass2NodesNoDedup(_, _, _, _, _, _)
Pass2NodesNoDedup(content, fileName, targetName, called, i, deps) ==
    IF i > Len(content) THEN deps
    ELSE LET funcName == getFunctionName(content[i])
         IN  IF /\ isFunction(content[i])
                /\ funcName # NullName
                /\ funcName # targetName
                /\ funcName \in called
             THEN Pass2NodesNoDedup(content, fileName, targetName, called, i + 1,
                                    Append(deps, [name |-> funcName,
                                                  content |-> Slice(content, i),
                                                  file |-> fileName]))
             ELSE Pass2NodesNoDedup(content, fileName, targetName, called, i + 1, deps)

\* Pass 2 over the nodes i.. of one file.
RECURSIVE Pass2Nodes(_, _, _, _, _, _)
Pass2Nodes(content, fileName, targetName, called, i, deps) ==
    IF i > Len(content) THEN deps
    ELSE LET funcName == getFunctionName(content[i])
         IN  IF /\ isFunction(content[i])
                /\ funcName # NullName
                /\ funcName # targetName
                /\ funcName \in called
                /\ ~\E m \in 1..Len(deps) : deps[m].name = funcName
             THEN Pass2Nodes(content, fileName, targetName, called, i + 1,
                             Append(deps, [name |-> funcName,
                                           content |-> Slice(content, i),
                                           file |-> fileName]))
             ELSE Pass2Nodes(content, fileName, targetName, called, i + 1, deps)

\* As Pass2 below, walking the files from the last to the first.
RECURSIVE Pass2LastFileFirst(_, _, _, _, _)
Pass2LastFileFirst(fs, targetName, called, k, deps) ==
    IF k > Len(fs) THEN deps
    ELSE LET f == fs[Len(fs) + 1 - k]
         IN  IF ~parses(f.content)
             THEN Pass2LastFileFirst(fs, targetName, called, k + 1, deps)
             ELSE Pass2LastFileFirst(fs, targetName, called, k + 1,
                     Pass2Nodes(f.content, f.name, targetName, called, 1, deps))

\* Pass 2 over asts[k..].
RECURSIVE Pass2(_, _, _, _, _)
Pass2(fs, targetName, called, k, deps) ==
    IF k > Len(fs) THEN deps
    ELSE IF ~parses(fs[k].content)
         THEN Pass2(fs, targetName, called, k + 1, deps)
         ELSE Pass2(fs, targetName, called, k + 1,
                    Pass2Nodes(fs[k].content, fs[k].name, targetName, called, 1, deps))

\* As runDependencyAnalysis, but one file that fails to parse aborts the run.
runDependencyAnalysisAborting(fs, targetName) ==
    LET p1 == Pass1(fs, targetName, 1, [target |-> Null, called |-> {}])
        found == p1.target # Null /\ ParsesAll(fs)
    IN  [ret |-> IF ~found THEN Null
                 ELSE [target |-> p1.target,
                       dependencies |-> Pass2(fs, targetName, p1.called, 1, <<>>)],
         called |-> p1.called,
         pass2 |-> found]

\* runDependencyAnalysis(files, targetFuncName) of the multi-file resolver:
\* ret is the returned value, called and pass2 expose the locals.
runDependencyAnalysis(fs, targetName) ==
    LET p1 == Pass1(fs, targetName, 1, [target |-> Null, called |-> {}])
        found == p1.target # Null
        findings == [target |-> p1.target,
                     dependencies |-> IF found
                                      THEN Pass2(fs, targetName, p1.called, 1, <<>>)
                                      ELSE <<>>]
    IN  [ret |-> IF ~found THEN Null ELSE findings,
         called |-> p1.called,
         pass2 |-> found]

-----------------------------------------------------------------------------
(* Dependency Resolver, single-file (src/core/analysis.ts) *)

\* First traversal over the nodes i..: every function named targetName sets
\* findings.target and adds the calls under it; the traversal goes on.
RECURSIVE Pass1Single(_, _, _, _)
Pass1Single(content, targetName, i, acc) ==
    IF i > Len(content) THEN acc
    ELSE IF isFunction(content[i]) /\ getFunctionNameCore(content[i]) = targetName
         THEN Pass1Single(content, targetName, i + 1,
                          [target |-> Slice(content, i),
                           called |-> acc.called \cup CalledNames(content, i)])
         ELSE Pass1Single(content, targetName, i + 1, acc)

\* Second traversal over the nodes i...
RECURSIVE Pass2Single(_, _, _, _)
Pass2Single(content, called, i, deps) ==
    IF i > Len(content) THEN deps
    ELSE LET funcName == getFunctionNameCore(content[i])
         IN  IF /\ isFunction(content[i])
                /\ funcName # NullName
                /\ funcName \in called
                /\ ~\E m \in 1..Len(deps) : deps[m].name = funcName
             THEN Pass2Single(content, called, i + 1,
                              Append(deps, [name |-> funcName,
                                            content |-> Slice(content, i)]))
             ELSE Pass2Single(content, called, i + 1, deps)

\* runDependencyAnalysis(code, targetFuncName) of src/core/analysis.ts.
runDependencyAnalysisSingle(content, targetName) ==
    IF ~parses(content)
    THEN [ret |-> Null, called |-> {}, pass2 |-> FALSE]
    ELSE LET p1 == Pass1Single(content, targetName, 1, [target |-> Null, called |-> {}])
             found == p1.target # Null
         IN  [ret |-> [target |-> p1.target,
                       dependencies |-> IF found
                                        THEN Pass2Single(content, p1.called, 1, <<>>)
                                        ELSE <<>>],
              called |-> p1.called,
              pass2 |-> found]

-----------------------------------------------------------------------------
(* Analysis store *)

EmptyGraph == [nodes |-> <<>>, edges |-> <<>>]

NoText == [kind |-> "empty"]

\* The header of setError's text, followed by the message.
ErrorText(errorMessage) == [kind |-> "error", message |-> errorMessage]

\* The state the store is created with.
InitialState ==
    [isLoading |-> FALSE, statusMessage |-> "", extractionResult |-> NoText,
     graphData |-> EmptyGraph, moduleGraphData |-> EmptyGraph]

\* As startAnalysis below, leaving the graphs as they are.
startAnalysisKeepingGraphs(s) ==
    [s EXCEPT !.isLoading = TRUE, !.extractionResult = NoText, !.statusMessage = ""]

startAnalysis(s) ==
    [s EXCEPT !.isLoading = TRUE, !.extractionResult = NoText, !.statusMessage = "",
              !.graphData = EmptyGraph, !.moduleGraphData = EmptyGraph]

setSuccess(s, report, graphData) ==
    [s EXCEPT !.isLoading = FALSE, !.extractionResult = report, !.graphData = graphData]

setError(s, errorMessage) ==
    [s EXCEPT !.isLoading = FALSE, !.extractionResult = ErrorText(errorMessage),
              !.graphData = EmptyGraph, !.moduleGraphData = EmptyGraph]

\* No request has been made: the store is as created and no import is
\* being resolved.
NoRequest ==
    /\ importerPath = <<>>
    /\ importPath = <<>>
    /\ allFilePaths = {}
    /\ params = Null
    /\ isElectron = FALSE
    /\ store = InitialState
    /\ reply = Null

-----------------------------------------------------------------------------
(* Inputs of the dependency resolvers *)

FileNames == <<"a.ts", "b.ts", "c.ts", "d.ts">>

File(k, content) == [name |-> FileNames[k], content |-> content]

\* files is prefix followed by n more sources that hold at most budget nodes
\* altogether (FilesAre); the first of them starts with content and has
\* left more nodes (FileIs).  A source that does not parse counts one node.
RECURSIVE FilesAre(_, _, _)
RECURSIVE FileIs(_, _, _, _, _)
FilesAre(n, budget, prefix) ==
    IF n = 0 THEN files = prefix
    ELSE \/ \E len \in 0..(IF budget < MaxNodes THEN budget ELSE MaxNodes) :
               FileIs(n, budget - len, prefix, <<>>, len)
         \/ /\ budget >= 1
            /\ FilesAre(n - 1, budget - 1,
                        Append(prefix, File(Len(prefix) + 1, <<SyntaxError>>)))

FileIs(n, budget, prefix, content, left) ==
    IF left = 0
    THEN FilesAre(n - 1, budget, Append(prefix, File(Len(prefix) + 1, content)))
    ELSE \E d \in NextDepths(content) : \E x \in DepNodes(d) :
            FileIs(n, budget, prefix, Append(content, x), left - 1)

-----------------------------------------------------------------------------
(* Specification of the dependency resolvers *)

InitDep ==
    /\ op = "init"
    /\ \E n \in 0..MaxFiles : FilesAre(n, MaxTotalNodes, <<>>)
    /\ targetFuncName \in Names
    /\ code = <<>>
    /\ result = Null
    /\ calledFunctionNames = {}
    /\ pass2 = FALSE
    /\ nodePath = Null
    /\ dependencyMap = <<>>
    /\ NoRequest
    /\ threshold = DefaultThreshold
    /\ lineCount = 1
    /\ engine = NoEngine
    /\ keywordArray = <<>>
    /\ filesToAnalyze = <<>>

\* runDependencyAnalysis(files, targetFuncName)
RunDependencyAnalysis ==
    /\ op = "init"
    /\ LET r == runDependencyAnalysis(files, targetFuncName)
       IN  /\ result' = r.ret
           /\ calledFunctionNames' = r.called
           /\ pass2' = r.pass2
    /\ op' = "runDependencyAnalysis"
    /\ UNCHANGED <<files, targetFuncName, code, nodePath, dependencyMap, params,
                   isElectron, store, reply, threshold,
                   importerPath, importPath, allFilePaths, lineCount, engine, keywordArray, filesToAnalyze>>

\* runDependencyAnalysis(code, targetFuncName) of src/core/analysis.ts, on
\* the content of one of the files
RunDependencyAnalysisSingle ==
    /\ op = "init"
    /\ \E k \in 1..Len(files) :
          /\ code' = files[k].content
          /\ LET r == runDependencyAnalysisSingle(files[k].content, targetFuncName)
             IN  /\ result' = r.ret
                 /\ calledFunctionNames' = r.called
                 /\ pass2' = r.pass2
    /\ op' = "runDependencyAnalysisSingle"
    /\ UNCHANGED <<files, targetFuncName, nodePath, dependencyMap, params,
                   isElectron, store, reply, threshold,
                   importerPath, importPath, allFilePaths, lineCount, engine, keywordArray, filesToAnalyze>>

NextDep == RunDependencyAnalysis \/ RunDependencyAnalysisSingle

SpecDep == InitDep /\ [][NextDep]_vars

-----------------------------------------------------------------------------
(* Properties of the dependency resolvers *)

\* Positions of the functions whose resolved name is n, in traversal order.
FunctionsNamed(content, n) ==
    {i \in 1..Len(content) : isFunction(content[i]) /\ getFunctionName(content[i]) = n}

\* The files of fs that parse, in order.
ParsedOnly(fs) == SelectSeq(fs, LAMBDA f : parses(f.content))

\* Index of the first file that parses and defines a function named n (0: none).
FirstFileDefining(fs, n) ==
    LET ks == {k \in 1..Len(fs) :
                  parses(fs[k].content) /\ FunctionsNamed(fs[k].content, n) # {}}
    IN  IF ks = {} THEN 0 ELSE Min(ks)

MultiDone == op = "runDependencyAnalysis"
SingleDone == op = "runDependencyAnalysisSingle"

HasTarget(r) == r # Null /\ r.target # Null

DependencyNames(r) == {r.dependencies[m].name : m \in 1..Len(r.dependencies)}

\* C1: whenever a target is found, no entry of the returned dependency list
\* is named like the target, in the multi-file and in the single-file resolver.
C1_NoSelfDependency ==
    (MultiDone \/ SingleDone) /\ HasTarget(result)
        => targetFuncName \notin DependencyNames(result)

\* C2: the target is the first function named targetFuncName in file order
\* then traversal order: the returned text is its span and the called names
\* are those of its body alone.
C2_FirstTargetWins ==
    /\ MultiDone /\ FirstFileDefining(files, targetFuncName) # 0
        => LET content == files[FirstFileDefining(files, targetFuncName)].content
               i == Min(FunctionsNamed(content, targetFuncName))
           IN  /\ HasTarget(result)
               /\ result.target = Slice(content, i)
               /\ calledFunctionNames = CalledNames(content, i)
    /\ SingleDone /\ parses(code) /\ FunctionsNamed(code, targetFuncName) # {}
        => LET i == Min(FunctionsNamed(code, targetFuncName))
           IN  /\ HasTarget(result)
               /\ result.target = Slice(code, i)
               /\ calledFunctionNames = CalledNames(code, i)

\* C3: with a target found by the multi-file resolver, a name is in the
\* dependency list iff it is called inside the target's body, differs from
\* the target name and names a function of some file that parses; no entry
\* is anonymous.
C3_DependenciesIffCalled ==
    MultiDone /\ HasTarget(result)
        => LET k == FirstFileDefining(files, targetFuncName)
               content == files[k].content
               called == CalledNames(content, Min(FunctionsNamed(content, targetFuncName)))
           IN  /\ NullName \notin DependencyNames(result)
               /\ \A n \in Names :
                     n \in DependencyNames(result)
                        <=> /\ n \in called
                            /\ n # targetFuncName
                            /\ FirstFileDefining(files, n) # 0

\* C4: when every file parses and none defines a function named
\* targetFuncName, the resolver returns a result object with target null
\* and an empty dependency list, and pass 2 is not run.
C4_NotFoundResult ==
    /\ MultiDone
        /\ files # <<>>
        /\ (\A k \in 1..Len(files) :
               parses(files[k].content)
                  /\ FunctionsNamed(files[k].content, targetFuncName) = {})
        => /\ result # Null
           /\ result.target = Null
           /\ result.dependencies = <<>>
           /\ ~pass2
    /\ SingleDone /\ parses(code) /\ FunctionsNamed(code, targetFuncName) = {}
        => /\ result # Null
           /\ result.target = Null
           /\ result.dependencies = <<>>
           /\ ~pass2

\* C6: a file that fails to parse is skipped in both passes: the multi-file
\* resolver returns what it returns for the list without the failing files,
\* and no target when every file fails; the single-file resolver returns
\* null, raising nothing, when its source fails to parse.
C6_ParseFailuresSkipped ==
    /\ MultiDone
        => /\ result = runDependencyAnalysis(ParsedOnly(files), targetFuncName).ret
           /\ ParsedOnly(files) = <<>> => ~HasTarget(result)
    /\ SingleDone /\ ~parses(code) => ~HasTarget(result)

\* A failing file stands before the file that defines the target and a
\* dependency, and both are still returned.
C6_Witness ==
    /\ MultiDone
    /\ Len(files) = 2
    /\ ~parses(files[1].content)
    /\ HasTarget(result)
    /\ Len(result.dependencies) > 0

\* The first function named n of the files that parse: its file and its
\* position in that file.
FirstDefinition(fs, n) ==
    LET k == FirstFileDefining(fs, n)
    IN  [file |-> k, at |-> Min(FunctionsNamed(fs[k].content, n))]

\* C21: no two entries of the dependency list share a name; every called
\* name other than the target that some function of a parsed file carries
\* has exactly one entry, which holds the span of the first such function
\* in file order then traversal order and the name of the file containing it.
C21_OneEntryPerName ==
    MultiDone /\ HasTarget(result)
        => LET deps == result.dependencies
           IN  /\ \A m1, m2 \in 1..Len(deps) :
                     deps[m1].name = deps[m2].name => m1 = m2
               /\ \A n \in (calledFunctionNames \ {targetFuncName}) :
                     FirstFileDefining(files, n) # 0 => n \in DependencyNames(result)
               /\ \A m \in 1..Len(deps) :
                     /\ FirstFileDefining(files, deps[m].name) # 0
                     /\ LET first == FirstDefinition(files, deps[m].name)
                        IN  /\ deps[m].file = files[first.file].name
                            /\ deps[m].content = Slice(files[first.file].content, first.at)

\* Two files define the called function; the one entry is that of the
\* first file.
C21_Witness ==
    /\ MultiDone
    /\ Len(files) = 2
    /\ HasTarget(result)
    /\ Len(result.dependencies) = 1
    /\ FunctionsNamed(files[1].content, result.dependencies[1].name) # {}
    /\ FunctionsNamed(files[2].content, result.dependencies[1].name) # {}
    /\ result.dependencies[1].file = files[1].name

-----------------------------------------------------------------------------
(* Specification of the order of the dependency list *)

MaxOrderFiles == 2   \* files in one request
MaxOrderNodes == 5   \* modelled nodes in one request

\* Names of a request whose target can call two other functions.
OrderNames == Names \cup {"C"}

\* The target of the requests of this specification, and the names it calls.
OrderTarget == "A"
OrderCallees == OrderNames \ {OrderTarget}

\* Function declarations, and calls of the callees by bare identifier, at
\* depth d.
OrderNodes(d) ==
    {FunctionDeclaration(n, d) : n \in OrderNames}
        \cup {CallIdentifier(n, d) : n \in OrderCallees}

\* files is prefix followed by n more sources of at most budget nodes
\* altogether; the first of them starts with content and has left more nodes.
RECURSIVE OrderFilesAre(_, _, _)
RECURSIVE OrderFileIs(_, _, _, _, _)
OrderFilesAre(n, budget, prefix) ==
    IF n = 0 THEN files = prefix
    ELSE \E len \in 0..budget : OrderFileIs(n, budget - len, prefix, <<>>, len)

OrderFileIs(n, budget, prefix, content, left) ==
    IF left = 0
    THEN OrderFilesAre(n - 1, budget, Append(prefix, File(Len(prefix) + 1, content)))
    ELSE \E d \in NextDepths(content) : \E x \in OrderNodes(d) :
            OrderFileIs(n, budget, prefix, Append(content, x), left - 1)

InitOrder ==
    /\ op = "init"
    /\ \E n \in 1..MaxOrderFiles : OrderFilesAre(n, MaxOrderNodes, <<>>)
    /\ targetFuncName = OrderTarget
    /\ code = <<>>
    /\ result = Null
    /\ calledFunctionNames = {}
    /\ pass2 = FALSE
    /\ nodePath = Null
    /\ dependencyMap = <<>>
    /\ NoRequest
    /\ threshold = DefaultThreshold
    /\ lineCount = 1
    /\ engine = NoEngine
    /\ keywordArray = <<>>
    /\ filesToAnalyze = <<>>

NextOrder == RunDependencyAnalysis

SpecOrder == InitOrder /\ [][NextOrder]_vars

\* deps[m1] is defined before deps[m2]: in an earlier file, or earlier in
\* the traversal of the same file.
DefinedBefore(fs, n1, n2) ==
    LET d1 == FirstDefinition(fs, n1)
        d2 == FirstDefinition(fs, n2)
    IN  d1.file < d2.file \/ (d1.file = d2.file /\ d1.at < d2.at)

\* Position of the first call of n in the body of the function at i (0: none).
FirstCallOf(content, i, n) ==
    LET at == {j \in (i + 1)..SubtreeEnd(content, i) :
                  isCallExpression(content[j].node) /\ CalleeName(content[j].node) = n}
    IN  IF at = {} THEN 0 ELSE Min(at)

\* C22: the entries of the dependency list stand in the order of their
\* definitions, file order first and traversal order within a file, whatever
\* the order of the calls in the target; the order of the list is thereby
\* fixed by the input alone.
C22_DefinitionOrder ==
    MultiDone /\ HasTarget(result)
        => \A m1, m2 \in 1..Len(result.dependencies) :
              m1 < m2 => DefinedBefore(files, result.dependencies[m1].name,
                                       result.dependencies[m2].name)

\* The target calls C before B, B is defined before C, and the list is B, C.
C22_Witness ==
    /\ MultiDone
    /\ HasTarget(result)
    /\ Len(result.dependencies) = 2
    /\ LET first == FirstDefinition(files, targetFuncName)
           content == files[first.file].content
           n1 == result.dependencies[1].name
           n2 == result.dependencies[2].name
       IN  /\ FirstCallOf(content, first.at, n1) # 0
           /\ FirstCallOf(content, first.at, n2) # 0
           /\ FirstCallOf(content, first.at, n2) < FirstCallOf(content, first.at, n1)

-----------------------------------------------------------------------------
(* Specification of the call-site collector *)

MaxCallNodes == 4    \* modelled nodes of the one source

\* x[f]()
CallComputed(n, d) ==
    [node |-> [type |-> "CallExpression",
               callee |-> [type |-> "MemberExpression", computed |-> TRUE,
                           property |-> Identifier(n)]],
     parent |-> [type |-> "ExpressionStatement"], depth |-> d]

\* The nodes of the dependency model and the computed member call.
CallNodes(d) == DepNodes(d) \cup {CallComputed(n, d) : n \in Names}

\* files is one source, content followed by left more nodes.
RECURSIVE CallFileIs(_, _)
CallFileIs(content, left) ==
    IF left = 0 THEN files = <<File(1, content)>>
    ELSE \E d \in NextDepths(content) : \E x \in CallNodes(d) :
            CallFileIs(Append(content, x), left - 1)

InitCalls ==
    /\ op = "init"
    /\ \E n \in 0..MaxCallNodes : CallFileIs(<<>>, n)
    /\ targetFuncName \in Names
    /\ code = <<>>
    /\ result = Null
    /\ calledFunctionNames = {}
    /\ pass2 = FALSE
    /\ nodePath = Null
    /\ dependencyMap = <<>>
    /\ NoRequest
    /\ threshold = DefaultThreshold
    /\ lineCount = 1
    /\ engine = NoEngine
    /\ keywordArray = <<>>
    /\ filesToAnalyze = <<>>

NextCalls == RunDependencyAnalysis \/ RunDependencyAnalysisSingle

SpecCalls == InitCalls /\ [][NextCalls]_vars

\* The callee is a property access written with a dot: x.f
isPropertyAccess(callee) ==
    /\ isMemberExpression(callee)
    /\ ~("computed" \in DOMAIN callee /\ callee.computed)

\* The names the calls under the function at position i call: the
\* identifier of a bare callee and the property name of a property access.
NamesCalledUnder(content, i) ==
    {IF isIdentifier(content[j].node.callee) THEN content[j].node.callee.name
     ELSE content[j].node.callee.property.name :
        j \in {k \in (i + 1)..SubtreeEnd(content, i) :
                  /\ isCallExpression(content[k].node)
                  /\ \/ isIdentifier(content[k].node.callee)
                     \/ /\ isPropertyAccess(content[k].node.callee)
                        /\ isIdentifier(content[k].node.callee.property)}}

\* The source has a call whose callee is a computed member expression.
HasComputedCall(content) ==
    \E j \in 1..Len(content) :
        /\ isCallExpression(content[j].node)
        /\ isMemberExpression(content[j].node.callee)
        /\ ~isPropertyAccess(content[j].node.callee)
        /\ isIdentifier(content[j].node.callee.property)

\* C23: the called names of a target that is found are exactly the
\* identifiers of the bare callees and the property names of the property
\* accesses of all calls in the subtree of the first function named
\* targetFuncName, calls in nested functions included; a call of any other
\* shape adds nothing.
C23_CalledNamesExactly ==
    (MultiDone \/ SingleDone) /\ HasTarget(result)
        => LET content == files[1].content
           IN  calledFunctionNames
                  = NamesCalledUnder(content, Min(FunctionsNamed(content, targetFuncName)))

\* C23 for sources without a computed member call, multi-file resolver.
CalledNamesWithoutComputed ==
    MultiDone /\ HasTarget(result) /\ ~HasComputedCall(files[1].content)
        => LET content == files[1].content
           IN  calledFunctionNames
                  = NamesCalledUnder(content, Min(FunctionsNamed(content, targetFuncName)))

-----------------------------------------------------------------------------
(* Call-Hierarchy Resolver *)

\* calleeName computed by the CallExpression visitor (NullName: null).
calleeName(node) ==
    LET callee == node.callee
    IN  IF isIdentifier(callee) THEN callee.name
        ELSE IF isMemberExpression(callee) /\ isIdentifier(callee.property)
        THEN callee.property.name
        ELSE NullName

\* path.findParent((p) => p.isFunction()) from position i (0: null).
RECURSIVE findParentFunction(_, _)
findParentFunction(content, i) ==
    LET j == Parent(content, i)
    IN  IF j = 0 THEN 0
        ELSE IF isFunction(content[j]) THEN j
        ELSE findParentFunction(content, j)

\* As VisitCalls below, without the processedFuncs test.
RECURSIVE VisitCallsNoDedup(_, _, _, _)
VisitCallsNoDedup(content, targetName, i, acc) ==
    IF i > Len(content) THEN acc
    ELSE LET j == findParentFunction(content, i)
             callerName == getFunctionNameCore(content[j])
         IN  IF /\ isCallExpression(content[i].node)
                /\ calleeName(content[i].node) = targetName
                /\ j # 0
                /\ callerName # NullName
             THEN VisitCallsNoDedup(content, targetName, i + 1,
                             [callers |-> Append(acc.callers,
                                                 [name |-> callerName,
                                                  content |-> Slice(content, j)]),
                              processedFuncs |-> acc.processedFuncs \cup {callerName}])
             ELSE VisitCallsNoDedup(content, targetName, i + 1, acc)

\* The CallExpression visitor over the nodes i.. ; acc holds callers and
\* processedFuncs.
RECURSIVE VisitCalls(_, _, _, _)
VisitCalls(content, targetName, i, acc) ==
    IF i > Len(content) THEN acc
    ELSE LET j == findParentFunction(content, i)
             callerName == getFunctionNameCore(content[j])
         IN  IF /\ isCallExpression(content[i].node)
                /\ calleeName(content[i].node) = targetName
                /\ j # 0
                /\ callerName # NullName
                /\ callerName \notin acc.processedFuncs
             THEN VisitCalls(content, targetName, i + 1,
                             [callers |-> Append(acc.callers,
                                                 [name |-> callerName,
                                                  content |-> Slice(content, j)]),
                              processedFuncs |-> acc.processedFuncs \cup {callerName}])
             ELSE VisitCalls(content, targetName, i + 1, acc)

\* As runCallHierarchyAnalysis, matching bare-identifier callees only.
runCallHierarchyAnalysisBareOnly(content, targetName) ==
    [target |-> targetName,
     callers |-> IF ~parses(content) THEN <<>>
                 ELSE VisitCalls(SelectSeq(content,
                                           LAMBDA p : ~isCallExpression(p.node)
                                                         \/ isIdentifier(p.node.callee)),
                                 targetName, 1,
                                 [callers |-> <<>>, processedFuncs |-> {}]).callers]

\* runCallHierarchyAnalysis(code, targetFuncName)
runCallHierarchyAnalysis(content, targetName) ==
    [target |-> targetName,
     callers |-> IF ~parses(content) THEN <<>>
                 ELSE VisitCalls(content, targetName, 1,
                                 [callers |-> <<>>, processedFuncs |-> {}]).callers]

-----------------------------------------------------------------------------
(* Specification of the call-hierarchy resolver *)

\* code is content followed by left more nodes.
RECURSIVE CodeIs(_, _)
CodeIs(content, left) ==
    IF left = 0 THEN code = content
    ELSE \E d \in NextDepths(content) : \E x \in DepNodes(d) :
            CodeIs(Append(content, x), left - 1)

InitCall ==
    /\ op = "init"
    /\ files = <<>>
    /\ targetFuncName \in Names
    /\ \/ \E n \in 0..MaxCodeNodes : CodeIs(<<>>, n)
       \/ code = <<SyntaxError>>
    /\ result = Null
    /\ calledFunctionNames = {}
    /\ pass2 = FALSE
    /\ nodePath = Null
    /\ dependencyMap = <<>>
    /\ NoRequest
    /\ threshold = DefaultThreshold
    /\ lineCount = 1
    /\ engine = NoEngine
    /\ keywordArray = <<>>
    /\ filesToAnalyze = <<>>

\* runCallHierarchyAnalysis(code, targetFuncName)
RunCallHierarchyAnalysis ==
    /\ op = "init"
    /\ result' = runCallHierarchyAnalysis(code, targetFuncName)
    /\ op' = "runCallHierarchyAnalysis"
    /\ UNCHANGED <<files, targetFuncName, code, calledFunctionNames, pass2, nodePath,
                   dependencyMap, params, isElectron, store, reply, threshold,
                   importerPath, importPath, allFilePaths, lineCount, engine, keywordArray, filesToAnalyze>>

NextCall == RunCallHierarchyAnalysis

SpecCall == InitCall /\ [][NextCall]_vars

-----------------------------------------------------------------------------
(* Properties of the call-hierarchy resolver *)

CallDone == op = "runCallHierarchyAnalysis"

\* Positions of the calls of n in content, in traversal order.
CallsOf(content, n) ==
    {i \in 1..Len(content) :
        /\ isCallExpression(content[i].node)
        /\ \/ isIdentifier(content[i].node.callee)
                 /\ content[i].node.callee.name = n
           \/ isMemberExpression(content[i].node.callee)
                 /\ isIdentifier(content[i].node.callee.property)
                 /\ content[i].node.callee.property.name = n}

\* Index of the nearest enclosing function of position i (0: none).
EnclosingFunction(content, i) ==
    LET above == {j \in 1..(i - 1) :
                     /\ isFunction(content[j])
                     /\ content[j].depth < content[i].depth
                     /\ SubtreeEnd(content, j) >= i}
    IN  IF above = {} THEN 0 ELSE CHOOSE j \in above : \A k \in above : k <= j

\* Calls of n in content whose nearest enclosing function is named c.
CallsOfFrom(content, n, c) ==
    {i \in CallsOf(content, n) :
        /\ EnclosingFunction(content, i) # 0
        /\ getFunctionNameCore(content[EnclosingFunction(content, i)]) = c}

CallerNames(r) == {r.callers[m].name : m \in 1..Len(r.callers)}

\* function A() { B() }  function B() { A() }
MutualRecursion ==
    <<FunctionDeclaration("A", 0), CallIdentifier("B", 1),
      FunctionDeclaration("B", 0), CallIdentifier("A", 1)>>

C8_CallersDeduplicated ==
    CallDone
        => /\ \A m1, m2 \in 1..Len(result.callers) :
                 result.callers[m1].name = result.callers[m2].name => m1 = m2
           /\ \A m \in 1..Len(result.callers) :
                 LET from == CallsOfFrom(code, targetFuncName, result.callers[m].name)
                 IN  /\ from # {}
                     /\ result.callers[m].content
                           = Slice(code, EnclosingFunction(code, Min(from)))

\* Two different functions of one name both call the target, and one entry
\* (the first function's) is kept.
C8_Witness ==
    /\ CallDone
    /\ Len(result.callers) = 1
    /\ \E i, j \in CallsOf(code, targetFuncName) :
          /\ i < j
          /\ EnclosingFunction(code, i) # 0
          /\ EnclosingFunction(code, j) # 0
          /\ Slice(code, EnclosingFunction(code, i)) # Slice(code, EnclosingFunction(code, j))
          /\ getFunctionNameCore(code[EnclosingFunction(code, i)]) = result.callers[1].name
          /\ getFunctionNameCore(code[EnclosingFunction(code, j)]) = result.callers[1].name

-----------------------------------------------------------------------------
(* Specification of the function name resolver *)

IdentifierOrNull == {Null} \cup {Identifier(n) : n \in Names}

\* Keys of methods and properties: an identifier, or a string literal.
Keys == {Identifier(n) : n \in Names} \cup {[type |-> "StringLiteral"]}

\* Parents of a function expression or an arrow function.
ExpressionParents ==
    {[type |-> "VariableDeclarator", id |-> i] :
        i \in {Identifier(n) : n \in Names} \cup {[type |-> "ObjectPattern"]}}
        \cup {[type |-> "ObjectProperty", key |-> k] : k \in Keys}
        \cup {[type |-> t] : t \in {"CallExpression", "AssignmentExpression",
                                    "ReturnStatement", "ClassProperty"}}

\* The function paths a traversal can hand to getFunctionName.
FunctionPaths ==
    {[node |-> [type |-> "FunctionDeclaration", id |-> Identifier(n)],
      parent |-> [type |-> t]] :
        n \in Names, t \in {"Program", "BlockStatement", "ExportNamedDeclaration",
                            "ExportDefaultDeclaration"}}
        \cup {[node |-> [type |-> "FunctionDeclaration", id |-> Null],
               parent |-> [type |-> "ExportDefaultDeclaration"]]}
        \cup {[node |-> [type |-> "FunctionExpression", id |-> i], parent |-> q] :
                 i \in IdentifierOrNull, q \in ExpressionParents}
        \cup {[node |-> [type |-> "ArrowFunctionExpression"], parent |-> q] :
                 q \in ExpressionParents}
        \cup {[node |-> [type |-> "ClassMethod", key |-> k],
               parent |-> [type |-> "ClassBody"]] : k \in Keys}
        \cup {[node |-> [type |-> "ObjectMethod", key |-> k],
               parent |-> [type |-> "ObjectExpression"]] : k \in Keys}
        \cup {[node |-> [type |-> "ClassPrivateMethod", key |-> [type |-> "PrivateName"]],
               parent |-> [type |-> "ClassBody"]]}

InitName ==
    /\ op = "init"
    /\ files = <<>>
    /\ targetFuncName = NullName
    /\ code = <<>>
    /\ result = NullName
    /\ calledFunctionNames = {}
    /\ pass2 = FALSE
    /\ nodePath \in FunctionPaths
    /\ dependencyMap = <<>>
    /\ NoRequest
    /\ threshold = DefaultThreshold
    /\ lineCount = 1
    /\ engine = NoEngine
    /\ keywordArray = <<>>
    /\ filesToAnalyze = <<>>

\* getFunctionName(path) of the multi-file resolver
GetFunctionName ==
    /\ op = "init"
    /\ result' = getFunctionName(nodePath)
    /\ op' = "getFunctionName"
    /\ UNCHANGED <<files, targetFuncName, code, calledFunctionNames, pass2, nodePath,
                   dependencyMap, params, isElectron, store, reply, threshold,
                   importerPath, importPath, allFilePaths, lineCount, engine, keywordArray, filesToAnalyze>>

\* getFunctionName(path) of src/core/analysis.ts
GetFunctionNameCore ==
    /\ op = "init"
    /\ result' = getFunctionNameCore(nodePath)
    /\ op' = "getFunctionNameCore"
    /\ UNCHANGED <<files, targetFuncName, code, calledFunctionNames, pass2, nodePath,
                   dependencyMap, params, isElectron, store, reply, threshold,
                   importerPath, importPath, allFilePaths, lineCount, engine, keywordArray, filesToAnalyze>>

NextName == GetFunctionName \/ GetFunctionNameCore

SpecName == InitName /\ [][NextName]_vars

\* The four named forms.
IsNamedDeclaration(p) ==
    p.node.type = "FunctionDeclaration" /\ p.node.id # Null

IsVariableBinding(p) ==
    /\ p.node.type \in {"FunctionExpression", "ArrowFunctionExpression"}
    /\ p.parent.type = "VariableDeclarator"
    /\ p.parent.id.type = "Identifier"

IsClassMethodForm(p) ==
    p.node.type = "ClassMethod" /\ p.node.key.type = "Identifier"

IsObjectLiteralForm(p) ==
    /\ p.node.type \in {"FunctionExpression", "ArrowFunctionExpression"}
    /\ p.parent.type = "ObjectProperty"
    /\ p.parent.key.type = "Identifier"

\* C9: getFunctionName returns the identifier of a named declaration, of the
\* variable a function or arrow expression initialises, of a class method's
\* key, and of the object-literal property whose value is a function or
\* arrow expression, and null for every other function node.
C9_FourForms ==
    op \in {"getFunctionName", "getFunctionNameCore"}
        => /\ IsNamedDeclaration(nodePath) => result = nodePath.node.id.name
           /\ IsVariableBinding(nodePath) => result = nodePath.parent.id.name
           /\ IsClassMethodForm(nodePath) => result = nodePath.node.key.name
           /\ IsObjectLiteralForm(nodePath) => result = nodePath.parent.key.name
           /\ ~(IsNamedDeclaration(nodePath) \/ IsVariableBinding(nodePath)
                   \/ IsClassMethodForm(nodePath) \/ IsObjectLiteralForm(nodePath))
                 => result = NullName

-----------------------------------------------------------------------------
(* Cycle Detector *)

\* dependencyMap.get(node) || []
Get(map, node) ==
    LET ks == {k \in 1..Len(map) : map[k].file = node}
    IN  IF ks = {} THEN <<>> ELSE map[CHOOSE k \in ks : TRUE].dependencies

\* path.indexOf(neighbor), one-based
IndexOf(seq, x) == Min({i \in 1..Len(seq) : seq[i] = x})

\* [...path.slice(path.indexOf(neighbor))] without the closing neighbor
OpenCycle(seq, neighbor) == SubSeq(seq, IndexOf(seq, neighbor), Len(seq))

\* As ClosedCycle below, taking the whole path instead of its slice from
\* the neighbor on.
WholePathCycle(seq, neighbor) == Append(seq, neighbor)

\* [...path.slice(path.indexOf(neighbor)), neighbor]
ClosedCycle(seq, neighbor) ==
    Append(SubSeq(seq, IndexOf(seq, neighbor), Len(seq)), neighbor)

\* detectCycle(node, path) and its loop over neighbors[i..]; st holds
\* visited, recursionStack, path and cycles, and explored, the nodes
\* detectCycle was entered for, in the order of the calls.
RECURSIVE detectCycle(_, _, _)
RECURSIVE ForNeighbors(_, _, _, _)
detectCycle(map, node, st) ==
    LET entered == [visited |-> st.visited \cup {node},
                    recursionStack |-> st.recursionStack \cup {node},
                    path |-> Append(st.path, node),
                    cycles |-> st.cycles,
                    explored |-> Append(st.explored, node)]
        left == ForNeighbors(map, Get(map, node), 1, entered)
    IN  [visited |-> left.visited,
         recursionStack |-> left.recursionStack \ {node},
         path |-> SubSeq(left.path, 1, Len(left.path) - 1),
         cycles |-> left.cycles,
         explored |-> left.explored]

\* As ForNeighbors below, entering every neighbor that is not on the
\* recursion stack, visited or not.
RECURSIVE ForNeighborsRevisiting(_, _, _, _)
ForNeighborsRevisiting(map, neighbors, i, st) ==
    IF i > Len(neighbors) THEN st
    ELSE IF neighbors[i] \notin st.recursionStack
         THEN ForNeighborsRevisiting(map, neighbors, i + 1,
                                     detectCycle(map, neighbors[i], st))
         ELSE ForNeighborsRevisiting(map, neighbors, i + 1,
                           [st EXCEPT !.cycles = Append(@, ClosedCycle(st.path, neighbors[i]))])

ForNeighbors(map, neighbors, i, st) ==
    IF i > Len(neighbors) THEN st
    ELSE IF neighbors[i] \notin st.visited
         THEN ForNeighbors(map, neighbors, i + 1, detectCycle(map, neighbors[i], st))
         ELSE IF neighbors[i] \in st.recursionStack
         THEN ForNeighbors(map, neighbors, i + 1,
                           [st EXCEPT !.cycles = Append(@, ClosedCycle(st.path, neighbors[i]))])
         ELSE ForNeighbors(map, neighbors, i + 1, st)

\* As ForEachModule below, starting the search from the first key only.
ForEachModuleFirstOnly(map, k, st) ==
    IF k > Len(map) THEN st
    ELSE detectCycle(map, map[k].file, [st EXCEPT !.path = <<>>])

\* dependencyMap.forEach over the keys k.. in insertion order
RECURSIVE ForEachModule(_, _, _)
ForEachModule(map, k, st) ==
    IF k > Len(map) THEN st
    ELSE IF map[k].file \notin st.visited
         THEN ForEachModule(map, k + 1, detectCycle(map, map[k].file, [st EXCEPT !.path = <<>>]))
         ELSE ForEachModule(map, k + 1, st)

\* The search of findCircularDependencies(dependencyMap), from empty sets
searchCycles(map) ==
    ForEachModule(map, 1, [visited |-> {}, recursionStack |-> {},
                           path |-> <<>>, cycles |-> <<>>, explored |-> <<>>])

\* findCircularDependencies(dependencyMap)
findCircularDependencies(map) == searchCycles(map).cycles

-----------------------------------------------------------------------------
(* Hub Analyzer *)

\* importCounts[dep] = (importCounts[dep] || 0) + 1, on the entries of
\* importCounts in insertion order
CountImport(importCounts, dep) ==
    LET ks == {k \in 1..Len(importCounts) : importCounts[k].name = dep}
    IN  IF ks = {} THEN Append(importCounts, [name |-> dep, count |-> 1])
        ELSE [importCounts EXCEPT ![CHOOSE k \in ks : TRUE].count = @ + 1]

\* dependencyMap.forEach over the dependencies i.. of the entries k..
RECURSIVE CountImports(_, _, _, _)
CountImports(map, k, i, importCounts) ==
    IF k > Len(map) THEN importCounts
    ELSE IF i > Len(map[k].dependencies)
    THEN CountImports(map, k + 1, 1, importCounts)
    ELSE CountImports(map, k, i + 1, CountImport(importCounts, map[k].dependencies[i]))

\* As SortByCount below, taking the last of the entries with the highest
\* count first: ties come out in reverse.
RECURSIVE SortByCountUnstable(_)
SortByCountUnstable(entries) ==
    IF entries = <<>> THEN <<>>
    ELSE LET tops == {k \in 1..Len(entries) :
                         \A j \in 1..Len(entries) : entries[j].count <= entries[k].count}
             top == CHOOSE k \in tops : \A j \in tops : j <= k
         IN  <<entries[top]>>
                \o SortByCountUnstable(SubSeq(entries, 1, top - 1)
                                          \o SubSeq(entries, top + 1, Len(entries)))

\* .sort((a, b) => b[1] - a[1]): stable, by descending count
RECURSIVE SortByCount(_)
SortByCount(entries) ==
    IF entries = <<>> THEN <<>>
    ELSE LET top == Min({k \in 1..Len(entries) :
                            \A j \in 1..Len(entries) : entries[j].count <= entries[k].count})
         IN  <<entries[top]>>
                \o SortByCount(SubSeq(entries, 1, top - 1)
                                  \o SubSeq(entries, top + 1, Len(entries)))

\* findHubModules(dependencyMap, threshold)
findHubModules(map, t) ==
    SortByCount(SelectSeq(CountImports(map, 1, 1, <<>>), LAMBDA e : e.count >= t))

-----------------------------------------------------------------------------
(* Specification of the graph analyzers *)

Modules == {"A", "B", "C"}

\* Array.from(dependencies): resolved imports, without repetition.
ImportLists ==
    {ds \in UNION {[1..n -> Modules] : n \in 0..MaxImports} :
        \A i, j \in 1..Len(ds) : ds[i] = ds[j] => i = j}

\* dependencyMap is map followed by n more entries with new keys.
RECURSIVE MapIs(_, _)
MapIs(map, n) ==
    IF n = 0 THEN dependencyMap = map
    ELSE \E f \in Modules \ {map[k].file : k \in 1..Len(map)} :
            \E ds \in ImportLists :
                MapIs(Append(map, [file |-> f, dependencies |-> ds]), n - 1)

InitGraph ==
    /\ op = "init"
    /\ files = <<>>
    /\ targetFuncName = NullName
    /\ code = <<>>
    /\ result = <<>>
    /\ calledFunctionNames = {}
    /\ pass2 = FALSE
    /\ nodePath = Null
    /\ \E n \in 0..Cardinality(Modules) : MapIs(<<>>, n)
    /\ NoRequest
    /\ threshold = DefaultThreshold
    /\ lineCount = 1
    /\ engine = NoEngine
    /\ keywordArray = <<>>
    /\ filesToAnalyze = <<>>

\* findCircularDependencies(dependencyMap)
FindCircularDependencies ==
    /\ op = "init"
    /\ result' = findCircularDependencies(dependencyMap)
    /\ op' = "findCircularDependencies"
    /\ UNCHANGED <<files, targetFuncName, code, calledFunctionNames, pass2, nodePath,
                   dependencyMap, params, isElectron, store, reply, threshold,
                   importerPath, importPath, allFilePaths, lineCount, engine, keywordArray, filesToAnalyze>>

NextGraph == FindCircularDependencies

SpecGraph == InitGraph /\ [][NextGraph]_vars

\* The map holds exactly the edges A -> B, B -> C and C -> A.
IsThreeCycle(map) ==
    /\ {map[k].file : k \in 1..Len(map)} = {"A", "B", "C"}
    /\ Get(map, "A") = <<"B">>
    /\ Get(map, "B") = <<"C">>
    /\ Get(map, "C") = <<"A">>

\* C10: for the modules A -> B -> C -> A exactly one cycle is reported: the
\* path from the module the search starts at (the first key of the map)
\* round the cycle, closed by a repeat of that module; it is [A, B, C, A]
\* when the map starts with A.
C10_ThreeCycle ==
    op = "findCircularDependencies" /\ IsThreeCycle(dependencyMap)
        => LET start == dependencyMap[1].file
               second == Get(dependencyMap, start)[1]
               third == Get(dependencyMap, second)[1]
           IN  /\ Len(result) = 1
               /\ result[1] = <<start, second, third, start>>
               /\ start = "A" => result = << <<"A", "B", "C", "A">> >>

\* The map lists A, B, C in this order and the cycle has been reported.
C10_Witness ==
    /\ op = "findCircularDependencies"
    /\ dependencyMap = <<[file |-> "A", dependencies |-> <<"B">>],
                         [file |-> "B", dependencies |-> <<"C">>],
                         [file |-> "C", dependencies |-> <<"A">>]>>
    /\ result = << <<"A", "B", "C", "A">> >>

\* The list without its last element.
Front(seq) == SubSeq(seq, 1, Len(seq) - 1)

\* y is in the import list of x.
HasEdge(map, x, y) == \E i \in 1..Len(Get(map, x)) : Get(map, x)[i] = y

NodesOf(seq) == {seq[i] : i \in 1..Len(seq)}

\* The directed cycles of the map: the lists of distinct modules in which
\* every module imports the next one and the last imports the first.
SimpleCycles(map) ==
    {c \in UNION {[1..n -> Modules] : n \in 1..Cardinality(Modules)} :
        /\ \A i, j \in 1..Len(c) : c[i] = c[j] => i = j
        /\ \A i \in 1..Len(c) : HasEdge(map, c[i], c[(i % Len(c)) + 1])}

\* c2 is c1 read from another start.
SameCycle(c1, c2) ==
    /\ Len(c1) = Len(c2)
    /\ \E r \in 0..(Len(c1) - 1) :
          \A i \in 1..Len(c1) : c2[i] = c1[((i - 1 + r) % Len(c1)) + 1]

\* No two different cycles of the map have a module in common.
CyclesAreDisjoint(map) ==
    \A c1, c2 \in SimpleCycles(map) :
        NodesOf(c1) \cap NodesOf(c2) # {} => SameCycle(c1, c2)

\* Positions of result that report the cycle c.
ReportsOf(c) ==
    {k \in 1..Len(result) : Len(result[k]) >= 2 /\ SameCycle(Front(result[k]), c)}

CyclesDone == op = "findCircularDependencies"

C28_ReportedCyclesAreClosedWalks ==
    CyclesDone
        => /\ \A k \in 1..Len(result) :
                 LET c == result[k]
                 IN  /\ Len(c) >= 2
                     /\ c[1] = c[Len(c)]
                     /\ \A i \in 1..(Len(c) - 1) : HasEdge(dependencyMap, c[i], c[i + 1])
                     /\ \A i, j \in 1..(Len(c) - 1) : c[i] = c[j] => i = j
           /\ \A m \in Modules :
                 HasEdge(dependencyMap, m, m)
                    => \E k \in 1..Len(result) : result[k] = <<m, m>>

\* A imports B, B imports itself and A: the self-import, met below A, is
\* reported as [B, B], and the cycle through A as [A, B, A].
C28_Witness ==
    /\ CyclesDone
    /\ Len(dependencyMap) = 2
    /\ dependencyMap[1].file = "A"
    /\ result = << <<"B", "B">>, <<"A", "B", "A">> >>

\* The keys of the map.
KeysOf(map) == {map[k].file : k \in 1..Len(map)}

\* C29: the list returned is non-empty exactly when the map has a directed
\* cycle, whatever the order of its keys and of the import lists, also
\* when an import target is no key of the map.
C29_NonEmptyIffCyclic ==
    CyclesDone => (result # <<>> <=> SimpleCycles(dependencyMap) # {})

\* The only cycle lies behind the second key, the first key imports a
\* module that is no key, and the cycle is reported.
C29_Witness ==
    /\ CyclesDone
    /\ Len(dependencyMap) = 2
    /\ \E i \in 1..Len(dependencyMap[1].dependencies) :
          dependencyMap[1].dependencies[i] \notin KeysOf(dependencyMap)
    /\ \A c \in SimpleCycles(dependencyMap) : dependencyMap[1].file \notin NodesOf(c)
    /\ Len(result) = 1

-----------------------------------------------------------------------------
(* Specification of the hub analyzer *)

MaxImporters == 5    \* modules besides the first one in a star-shaped map
MaxThreshold == 2    \* thresholds tried besides the default

ModuleNames == <<"A", "B", "C", "D", "E", "F", "G", "H">>

Thresholds == 1..MaxThreshold \cup {DefaultThreshold}

\* The imports of ModuleNames[k] in a star-shaped map: the first module,
\* the module itself, both or none.
StarImports(k) ==
    IF k = 1 THEN {<<>>, <<ModuleNames[1]>>}
    ELSE {<<>>, <<ModuleNames[1]>>, <<ModuleNames[k]>>,
          <<ModuleNames[1], ModuleNames[k]>>, <<ModuleNames[k], ModuleNames[1]>>}

\* dependencyMap is map followed by the entries of ModuleNames[k..n].
RECURSIVE StarIs(_, _, _)
StarIs(map, k, n) ==
    IF k > n THEN dependencyMap = map
    ELSE \E ds \in StarImports(k) :
            StarIs(Append(map, [file |-> ModuleNames[k], dependencies |-> ds]), k + 1, n)

InitHub ==
    /\ op = "init"
    /\ files = <<>>
    /\ targetFuncName = NullName
    /\ code = <<>>
    /\ result = <<>>
    /\ calledFunctionNames = {}
    /\ pass2 = FALSE
    /\ nodePath = Null
    /\ \/ \E n \in 0..Cardinality(Modules) : MapIs(<<>>, n)
       \/ \E n \in 1..(MaxImporters + 1) : StarIs(<<>>, 1, n)
    /\ NoRequest
    /\ threshold \in Thresholds
    /\ lineCount = 1
    /\ engine = NoEngine
    /\ keywordArray = <<>>
    /\ filesToAnalyze = <<>>

\* findHubModules(dependencyMap, threshold)
FindHubModules ==
    /\ op = "init"
    /\ result' = findHubModules(dependencyMap, threshold)
    /\ op' = "findHubModules"
    /\ UNCHANGED <<files, targetFuncName, code, calledFunctionNames, pass2, nodePath,
                   dependencyMap, params, isElectron, store, reply, threshold,
                   importerPath, importPath, allFilePaths, lineCount, engine, keywordArray, filesToAnalyze>>

NextHub == FindHubModules

SpecHub == InitHub /\ [][NextHub]_vars

\* The modules of the map: its keys and the modules they import.
AllModules(map) ==
    {map[k].file : k \in 1..Len(map)}
        \cup UNION {{map[k].dependencies[i] : i \in 1..Len(map[k].dependencies)} :
                       k \in 1..Len(map)}

\* The other modules that import m.
Importers(map, m) ==
    {map[k].file : k \in {j \in 1..Len(map) :
                             /\ map[j].file # m
                             /\ \E i \in 1..Len(map[j].dependencies) :
                                   map[j].dependencies[i] = m}}

\* C11: findHubModules lists a module if and only if the number of other
\* modules that import it is at least the threshold, with that number as
\* its count, and lists no module twice.
C11_HubsIffImporters ==
    op = "findHubModules"
        => /\ \A m \in AllModules(dependencyMap) :
                 (\E h \in 1..Len(result) : result[h].name = m)
                    <=> Cardinality(Importers(dependencyMap, m)) >= threshold
           /\ \A h \in 1..Len(result) :
                 /\ result[h].count = Cardinality(Importers(dependencyMap, result[h].name))
                 /\ \A g \in 1..Len(result) : result[g].name = result[h].name => g = h

\* The import targets of the map in the order the forEach meets them:
\* entry by entry, each list from its first element.
RECURSIVE ImportTargets(_, _)
ImportTargets(map, k) ==
    IF k > Len(map) THEN <<>>
    ELSE map[k].dependencies \o ImportTargets(map, k + 1)

\* Place at which m is first seen as an import target.
Discovery(map, m) == IndexOf(ImportTargets(map, 1), m)

\* C25: the list of hubs is sorted by descending count, and of two hubs
\* with the same count the one first seen as an import target comes first.
C25_SortedByCountThenDiscovery ==
    op = "findHubModules"
        => \A h, g \in 1..Len(result) :
              h < g => \/ result[h].count > result[g].count
                       \/ /\ result[h].count = result[g].count
                          /\ Discovery(dependencyMap, result[h].name)
                                < Discovery(dependencyMap, result[g].name)

\* Three hubs: the one with the highest count was seen last and is listed
\* first, the two with equal counts follow in the order they were seen.
C25_Witness ==
    /\ op = "findHubModules"
    /\ Len(result) = 3
    /\ result[1].count > result[2].count
    /\ result[2].count = result[3].count
    /\ Discovery(dependencyMap, result[1].name) > Discovery(dependencyMap, result[3].name)

-----------------------------------------------------------------------------
(* Orphan Analyzer *)

\* file.includes(part), on strings written as sequences of characters
includes(file, part) ==
    \E i \in 0..(Len(file) - Len(part)) : SubSeq(file, i + 1, i + Len(part)) = part

\* The Set allDependencies
allDependencies(map) ==
    UNION {{map[k].dependencies[i] : i \in 1..Len(map[k].dependencies)} :
              k \in 1..Len(map)}

\* The test of the inner if: the file is no entry point.
notEntryPoint(file) ==
    /\ ~includes(file, <<"i", "n", "d", "e", "x", ".">>)
    /\ ~includes(file, <<"m", "a", "i", "n", ".">>)
    /\ ~includes(file, <<"A", "p", "p", ".">>)

\* The second dependencyMap.forEach, over the entries k.. in insertion order
RECURSIVE CollectOrphans(_, _, _)
CollectOrphans(map, k, orphans) ==
    IF k > Len(map) THEN orphans
    ELSE IF /\ map[k].file \notin allDependencies(map)
            /\ Len(map[k].dependencies) > 0
            /\ notEntryPoint(map[k].file)
         THEN CollectOrphans(map, k + 1, Append(orphans, map[k].file))
         ELSE CollectOrphans(map, k + 1, orphans)

\* findOrphanModules(dependencyMap)
findOrphanModules(map) == CollectOrphans(map, 1, <<>>)

-----------------------------------------------------------------------------
(* Specification of the orphan analyzer *)

MaxOrphanModules == 2    \* entries of the map

HelpersTs == <<"h", "e", "l", "p", "e", "r", "s", ".", "t", "s">>
IndexTs == <<"i", "n", "d", "e", "x", ".", "t", "s">>
MainTs == <<"m", "a", "i", "n", ".", "t", "s">>
AppTsx == <<"A", "p", "p", ".", "t", "s", "x">>
DomainTs == <<"d", "o", "m", "a", "i", "n", ".", "t", "s">>

SourceFiles == {HelpersTs, IndexTs, MainTs, AppTsx, DomainTs}

\* Array.from(dependencies): resolved imports, without repetition.
SourceImportLists ==
    {ds \in UNION {[1..n -> SourceFiles] : n \in 0..MaxImports} :
        \A i, j \in 1..Len(ds) : ds[i] = ds[j] => i = j}

\* dependencyMap is map followed by n more entries with new keys.
RECURSIVE SourceMapIs(_, _)
SourceMapIs(map, n) ==
    IF n = 0 THEN dependencyMap = map
    ELSE \E f \in SourceFiles \ {map[k].file : k \in 1..Len(map)} :
            \E ds \in SourceImportLists :
                SourceMapIs(Append(map, [file |-> f, dependencies |-> ds]), n - 1)

InitOrphan ==
    /\ op = "init"
    /\ files = <<>>
    /\ targetFuncName = NullName
    /\ code = <<>>
    /\ result = <<>>
    /\ calledFunctionNames = {}
    /\ pass2 = FALSE
    /\ nodePath = Null
    /\ \E n \in 0..MaxOrphanModules : SourceMapIs(<<>>, n)
    /\ NoRequest
    /\ threshold = DefaultThreshold
    /\ lineCount = 1
    /\ engine = NoEngine
    /\ keywordArray = <<>>
    /\ filesToAnalyze = <<>>

\* findOrphanModules(dependencyMap)
FindOrphanModules ==
    /\ op = "init"
    /\ result' = findOrphanModules(dependencyMap)
    /\ op' = "findOrphanModules"
    /\ UNCHANGED <<files, targetFuncName, code, calledFunctionNames, pass2, nodePath,
                   dependencyMap, params, isElectron, store, reply, threshold,
                   importerPath, importPath, allFilePaths, lineCount, engine, keywordArray, filesToAnalyze>>

NextOrphan == FindOrphanModules

SpecOrphan == InitOrphan /\ [][NextOrphan]_vars

\* The file name of an id: what follows its last "/".
FileNameOf(file) ==
    LET slashes == {i \in 1..Len(file) : file[i] = "/"}
        last == IF slashes = {} THEN 0 ELSE CHOOSE i \in slashes : \A j \in slashes : j <= i
    IN  SubSeq(file, last + 1, Len(file))

\* The file name up to its first ".".
StemOf(file) ==
    LET name == FileNameOf(file)
        dots == {i \in 1..Len(name) : name[i] = "."}
    IN  IF dots = {} THEN name ELSE SubSeq(name, 1, Min(dots) - 1)

\* The file name is index, main or App.
IsEntryPointName(file) == StemOf(file) \in {<<"i", "n", "d", "e", "x">>, <<"m", "a", "i", "n">>, <<"A", "p", "p">>}

\* C12: findOrphanModules reports a module if and only if it imports
\* something, no module imports it, and its file name is not index, main or
\* App; helpers.ts is reported and index.ts is not in that situation.
C12_OrphansIffUnimportedImporter ==
    op = "findOrphanModules"
        => \A k \in 1..Len(dependencyMap) :
              LET file == dependencyMap[k].file
              IN  (\E o \in 1..Len(result) : result[o] = file)
                     <=> /\ Len(dependencyMap[k].dependencies) > 0
                         /\ file \notin allDependencies(dependencyMap)
                         /\ ~IsEntryPointName(file)

-----------------------------------------------------------------------------
(* Module Path Resolver *)

\* Strings are sequences of characters.  The value of "no path" (null).
NullPath == <<"null">>

startsWith(str, prefix) ==
    Len(str) >= Len(prefix) /\ SubSeq(str, 1, Len(prefix)) = prefix

\* str.lastIndexOf("/"), one-based (0: none)
lastIndexOfSlash(str) ==
    LET slashes == {i \in 1..Len(str) : str[i] = "/"}
    IN  IF slashes = {} THEN 0 ELSE CHOOSE i \in slashes : \A j \in slashes : j <= i

\* str.split("/")
RECURSIVE split(_)
split(str) ==
    LET slashes == {i \in 1..Len(str) : str[i] = "/"}
    IN  IF slashes = {} THEN <<str>>
        ELSE <<SubSeq(str, 1, Min(slashes) - 1)>>
                \o split(SubSeq(str, Min(slashes) + 1, Len(str)))

\* parts.join("/")
RECURSIVE join(_)
join(parts) ==
    IF parts = <<>> THEN <<>>
    ELSE IF Len(parts) = 1 THEN parts[1]
    ELSE parts[1] \o <<"/">> \o join(Tail(parts))

\* The loop over pathParts[i..] that drops "" and ".", and pops for "..".
RECURSIVE resolveParts(_, _, _)
resolveParts(pathParts, i, resolvedParts) ==
    IF i > Len(pathParts) THEN resolvedParts
    ELSE IF pathParts[i] = <<>> \/ pathParts[i] = <<".">>
    THEN resolveParts(pathParts, i + 1, resolvedParts)
    ELSE IF pathParts[i] = <<".", ".">>
    THEN resolveParts(pathParts, i + 1,
                      SubSeq(resolvedParts, 1, Len(resolvedParts) - 1))
    ELSE resolveParts(pathParts, i + 1, Append(resolvedParts, pathParts[i]))

\* The extensions of resolveVirtualPath, in the order they are tried.
extensions ==
    <<<<>>, <<".", "t", "s">>, <<".", "t", "s", "x">>, <<".", "j", "s">>, <<".", "j", "s", "x">>,
      <<"/", "i", "n", "d", "e", "x", ".", "t", "s">>, <<"/", "i", "n", "d", "e", "x", ".", "t", "s", "x">>, <<"/", "i", "n", "d", "e", "x", ".", "j", "s">>, <<"/", "i", "n", "d", "e", "x", ".", "j", "s", "x">>>>

\* The first of filesToCheck[i..] that exists (NullPath: none).
RECURSIVE firstExisting(_, _, _)
firstExisting(filesToCheck, i, existing) ==
    IF i > Len(filesToCheck) THEN NullPath
    ELSE IF filesToCheck[i] \in existing THEN filesToCheck[i]
    ELSE firstExisting(filesToCheck, i + 1, existing)

\* resolveVirtualPath(importerPath, importPath, allFilePaths)
resolveVirtualPath(importer, specifier, all) ==
    IF ~startsWith(specifier, <<".">>) THEN NullPath
    ELSE LET importerDir == IF lastIndexOfSlash(importer) > 0
                            THEN SubSeq(importer, 1, lastIndexOfSlash(importer) - 1)
                            ELSE <<>>
             pathParts == split(IF importerDir # <<>>
                                THEN importerDir \o <<"/">> \o specifier
                                ELSE specifier)
             resolvedPath == join(resolveParts(pathParts, 1, <<>>))
         IN  firstExisting([e \in 1..Len(extensions) |-> resolvedPath \o extensions[e]],
                           1, all)

\* path.dirname of an absolute POSIX path
dirname(file) ==
    IF lastIndexOfSlash(file) <= 1 THEN <<"/">>
    ELSE SubSeq(file, 1, lastIndexOfSlash(file) - 1)

\* path.resolve(dir, specifier) for an absolute dir and a specifier that
\* starts with "."; path.join(dir, name) is the same normalisation.
pathResolve(dir, specifier) ==
    <<"/">> \o join(resolveParts(split(dir \o <<"/">> \o specifier), 1, <<>>))

\* resolveImportPath(importerPath, importPath); onDisk holds the paths p with
\* fs.existsSync(p) && fs.statSync(p).isFile()
resolveImportPath(importer, specifier, onDisk) ==
    IF ~startsWith(specifier, <<".">>) THEN NullPath
    ELSE LET importerDir == dirname(importer)
             resolvedPath == pathResolve(importerDir, specifier)
             filesToCheck ==
                 <<resolvedPath,
                   resolvedPath \o <<".", "t", "s">>, resolvedPath \o <<".", "t", "s", "x">>,
                   resolvedPath \o <<".", "j", "s">>, resolvedPath \o <<".", "j", "s", "x">>,
                   pathResolve(resolvedPath, <<"i", "n", "d", "e", "x", ".", "t", "s">>),
                   pathResolve(resolvedPath, <<"i", "n", "d", "e", "x", ".", "t", "s", "x">>),
                   pathResolve(resolvedPath, <<"i", "n", "d", "e", "x", ".", "j", "s">>),
                   pathResolve(resolvedPath, <<"i", "n", "d", "e", "x", ".", "j", "s", "x">>)>>
         IN  firstExisting(filesToCheck, 1, onDisk)

-----------------------------------------------------------------------------
(* Specification of the module path resolver *)

\* Paths of files a manifest can hold besides the importing file.
ManifestPaths ==
    {<<"u", "t", "i", "l", ".", "t", "s">>, <<"u", "t", "i", "l", "/", "i", "n", "d", "e", "x", ".", "t", "s">>, <<"i", "n", "d", "e", "x", ".", "t", "s">>, <<"s", "r", "c", "/", "u", "t", "i", "l", ".", "t", "s", "x">>, <<"s", "r", "c", "/", "i", "n", "d", "e", "x", ".", "j", "s">>, <<"u", "t", "i", "l">>}

ImporterPaths == {<<"a", ".", "t", "s">>, <<"s", "r", "c", "/", "a", ".", "t", "s">>, <<"s", "r", "c", "/", "l", "i", "b", "/", "a", ".", "t", "s">>}

ImportSpecifiers ==
    {<<".", "/", "u", "t", "i", "l">>, <<".", ".", "/", "u", "t", "i", "l">>, <<".">>, <<".", "/">>, <<".", ".">>, <<".", "/", "u", "t", "i", "l", ".", "t", "s">>, <<".", "/", "l", "i", "b", "/", ".", ".", "/", "u", "t", "i", "l">>,
     <<".", "/", "n", "o", "n", "e">>, <<"r", "e", "a", "c", "t">>}

InitPath ==
    /\ op = "init"
    /\ files = <<>>
    /\ targetFuncName = NullName
    /\ code = <<>>
    /\ result = NullPath
    /\ calledFunctionNames = {}
    /\ pass2 = FALSE
    /\ nodePath = Null
    /\ dependencyMap = <<>>
    /\ params = Null
    /\ isElectron = FALSE
    /\ store = InitialState
    /\ reply = Null
    /\ threshold = DefaultThreshold
    /\ importerPath \in ImporterPaths
    /\ importPath \in ImportSpecifiers
    /\ \E others \in SUBSET ManifestPaths : allFilePaths = {importerPath} \cup others
    /\ lineCount = 1
    /\ engine = NoEngine
    /\ keywordArray = <<>>
    /\ filesToAnalyze = <<>>

\* resolveVirtualPath(file.path, importPath, allFilePaths)
ResolveVirtualPath ==
    /\ op = "init"
    /\ result' = resolveVirtualPath(importerPath, importPath, allFilePaths)
    /\ op' = "resolveVirtualPath"
    /\ UNCHANGED <<files, targetFuncName, code, calledFunctionNames, pass2, nodePath,
                   dependencyMap, params, isElectron, store, reply, threshold,
                   importerPath, importPath, allFilePaths, lineCount, engine, keywordArray, filesToAnalyze>>

\* resolveImportPath(file.path, importPath), the scanned folder being "/"
ResolveImportPath ==
    /\ op = "init"
    /\ result' = resolveImportPath(<<"/">> \o importerPath, importPath,
                                   {<<"/">> \o p : p \in allFilePaths})
    /\ op' = "resolveImportPath"
    /\ UNCHANGED <<files, targetFuncName, code, calledFunctionNames, pass2, nodePath,
                   dependencyMap, params, isElectron, store, reply, threshold,
                   importerPath, importPath, allFilePaths, lineCount, engine, keywordArray, filesToAnalyze>>

NextPath == ResolveVirtualPath \/ ResolveImportPath

SpecPath == InitPath /\ [][NextPath]_vars

\* The specifier is relative: ".", "..", or it starts with "./" or "../".
IsRelative(specifier) ==
    \/ specifier \in {<<".">>, <<".", ".">>}
    \/ startsWith(specifier, <<".", "/">>)
    \/ startsWith(specifier, <<".", ".", "/">>)

\* The segments of the specifier resolved against the importer's directory.
ResolvedSegments(importer, specifier) ==
    LET segments == split(importer)
    IN  resolveParts(SubSeq(segments, 1, Len(segments) - 1) \o split(specifier), 1, <<>>)

\* The candidates in the order of the claim: the path, the path with an
\* extension, the path joined with an index file.
Candidates(importer, specifier) ==
    LET segments == ResolvedSegments(importer, specifier)
    IN  <<join(segments),
          join(segments) \o <<".", "t", "s">>, join(segments) \o <<".", "t", "s", "x">>,
          join(segments) \o <<".", "j", "s">>, join(segments) \o <<".", "j", "s", "x">>,
          join(Append(segments, <<"i", "n", "d", "e", "x", ".", "t", "s">>)), join(Append(segments, <<"i", "n", "d", "e", "x", ".", "t", "s", "x">>)),
          join(Append(segments, <<"i", "n", "d", "e", "x", ".", "j", "s">>)), join(Append(segments, <<"i", "n", "d", "e", "x", ".", "j", "s", "x">>))>>

\* C13: for a relative specifier both resolvers return the first existing
\* candidate in the order path, path + .ts/.tsx/.js/.jsx, path joined with
\* index.ts/.tsx/.js/.jsx, and fail when there is none; "./util" with
\* util.ts and util/index.ts present gives util.ts.
C13_CandidateOrder ==
    /\ op = "resolveVirtualPath" /\ IsRelative(importPath)
          => result = firstExisting(Candidates(importerPath, importPath), 1, allFilePaths)
    /\ op = "resolveImportPath" /\ IsRelative(importPath)
          => result = LET found == firstExisting(Candidates(importerPath, importPath),
                                                 1, allFilePaths)
                      IN  IF found = NullPath THEN NullPath ELSE <<"/">> \o found
    /\ (/\ op = "resolveVirtualPath"
        /\ importerPath = <<"a", ".", "t", "s">>
        /\ importPath = <<".", "/", "u", "t", "i", "l">>
        /\ {<<"u", "t", "i", "l", ".", "t", "s">>, <<"u", "t", "i", "l", "/", "i", "n", "d", "e", "x", ".", "t", "s">>} \subseteq allFilePaths)
          => result = <<"u", "t", "i", "l", ".", "t", "s">>

-----------------------------------------------------------------------------
(* Module Graph Builder *)

\* import ... from "<specifier>", a statement of the program
ImportDeclaration(specifier) ==
    [node |-> [type |-> "ImportDeclaration", source |-> [value |-> specifier]],
     parent |-> Program, depth |-> 0]

\* An element of filesToAnalyze in module mode.
ModuleFile(filePath, content) == [path |-> filePath, content |-> content]

\* dependencies.add(absolutePath), on the Set in insertion order
SetAdd(set, x) ==
    IF \E i \in 1..Len(set) : set[i] = x THEN set ELSE Append(set, x)

\* As VisitImports below, adding the specifier itself when it does not
\* resolve.
RECURSIVE VisitImportsUnresolved(_, _, _, _, _)
VisitImportsUnresolved(file, i, dependencies, folder, all) ==
    IF i > Len(file.content) THEN dependencies
    ELSE IF file.content[i].node.type # "ImportDeclaration"
    THEN VisitImportsUnresolved(file, i + 1, dependencies, folder, all)
    ELSE LET importPath_ == file.content[i].node.source.value
             absolutePath == IF folder
                             THEN resolveImportPath(file.path, importPath_, all)
                             ELSE resolveVirtualPath(file.path, importPath_, all)
         IN  VisitImportsUnresolved(file, i + 1,
                                    SetAdd(dependencies,
                                           IF absolutePath # NullPath THEN absolutePath
                                           ELSE importPath_),
                                    folder, all)

\* The ImportDeclaration visitor over the nodes i.. of the file;
\* folder: sourceMethod === "folder" in the main process.
RECURSIVE VisitImports(_, _, _, _, _)
VisitImports(file, i, dependencies, folder, all) ==
    IF i > Len(file.content) THEN dependencies
    ELSE IF file.content[i].node.type # "ImportDeclaration"
    THEN VisitImports(file, i + 1, dependencies, folder, all)
    ELSE LET importPath_ == file.content[i].node.source.value
             absolutePath == IF folder
                             THEN resolveImportPath(file.path, importPath_, all)
                             ELSE resolveVirtualPath(file.path, importPath_, all)
         IN  VisitImports(file, i + 1,
                          IF absolutePath # NullPath
                          THEN SetAdd(dependencies, absolutePath)
                          ELSE dependencies,
                          folder, all)

\* dependencyMap.set(file.path, Array.from(dependencies))
MapSet(map, key, value) ==
    LET ks == {k \in 1..Len(map) : map[k].file = key}
    IN  IF ks = {} THEN Append(map, [file |-> key, dependencies |-> value])
        ELSE [map EXCEPT ![CHOOSE k \in ks : TRUE].dependencies = value]

\* As buildDependencyMap below, but a file that does not parse sets an
\* entry without dependencies.
RECURSIVE buildDependencyMapKeepingFailed(_, _, _, _, _)
buildDependencyMapKeepingFailed(fs, k, map, folder, all) ==
    IF k > Len(fs) THEN map
    ELSE buildDependencyMapKeepingFailed(fs, k + 1,
            MapSet(map, fs[k].path,
                   IF parses(fs[k].content)
                   THEN VisitImports(fs[k], 1, <<>>, folder, all)
                   ELSE <<>>),
            folder, all)

\* for (const file of filesToAnalyze), from the file k on: a file that does
\* not parse sets no entry.
RECURSIVE buildDependencyMap(_, _, _, _, _)
buildDependencyMap(fs, k, map, folder, all) ==
    IF k > Len(fs) THEN map
    ELSE IF ~parses(fs[k].content) THEN buildDependencyMap(fs, k + 1, map, folder, all)
    ELSE buildDependencyMap(fs, k + 1,
                            MapSet(map, fs[k].path,
                                   VisitImports(fs[k], 1, <<>>, folder, all)),
                            folder, all)

\* The Set allPaths, in insertion order, from the entry k and its
\* dependency i on.
RECURSIVE allPathsOf(_, _, _, _)
allPathsOf(map, k, i, acc) ==
    IF k > Len(map) THEN acc
    ELSE IF i = 0 THEN allPathsOf(map, k, 1, SetAdd(acc, map[k].file))
    ELSE IF i > Len(map[k].dependencies) THEN allPathsOf(map, k + 1, 0, acc)
    ELSE allPathsOf(map, k, i + 1, SetAdd(acc, map[k].dependencies[i]))

\* The edges, from the entry k and its dependency i on.
RECURSIVE edgesOf(_, _, _, _)
edgesOf(map, k, i, acc) ==
    IF k > Len(map) THEN acc
    ELSE IF i > Len(map[k].dependencies) THEN edgesOf(map, k + 1, 1, acc)
    ELSE edgesOf(map, k, i + 1,
                 Append(acc, [source |-> map[k].file,
                              target |-> map[k].dependencies[i]]))

\* path.relative(normalizedPath, file) for the scanned folder "/"
relativeLabel(file) == SubSeq(file, 2, Len(file))

\* The module branch from the dependency map on: the ModuleGraphPayload.
moduleGraphPayload(fs, folder, all) ==
    LET map == buildDependencyMap(fs, 1, <<>>, folder, all)
        ids == allPathsOf(map, 1, 0, <<>>)
    IN  [analysisType |-> "module-graph",
         nodes |-> [n \in 1..Len(ids) |->
                       [id |-> ids[n],
                        label |-> IF folder THEN relativeLabel(ids[n]) ELSE ids[n]]],
         edges |-> edgesOf(map, 1, 1, <<>>),
         report |-> [modules |-> Len(map),
                     cycles |-> findCircularDependencies(map),
                     hubs |-> findHubModules(map, DefaultThreshold),
                     orphans |-> findOrphanModules(map)]]

-----------------------------------------------------------------------------
(* Specification of the module graph builder *)

MaxModuleFiles == 2      \* files of filesToAnalyze in module mode
MaxModuleImports == 2    \* import declarations of one file
MaxTotalImports == 3     \* import declarations of all files

ModulePaths == {<<"a", ".", "t", "s">>, <<"u", "t", "i", "l", ".", "t", "s">>, <<"u", "t", "i", "l", "/", "i", "n", "d", "e", "x", ".", "t", "s">>, <<"s", "r", "c", "/", "b", ".", "t", "s">>}

ModuleSpecifiers == {<<".", "/", "u", "t", "i", "l">>, <<".", ".", "/", "a">>, <<"r", "e", "a", "c", "t">>, <<".", "/", "n", "o", "n", "e">>}

\* The sources of a module: up to MaxModuleImports import declarations, or
\* a source that does not parse.
ModuleContents ==
    {<<SyntaxError>>}
        \cup UNION {[1..n -> {ImportDeclaration(sp) : sp \in ModuleSpecifiers}] :
                       n \in 0..MaxModuleImports}

\* files is fs followed by n more files with new paths that hold at most
\* budget import declarations altogether; every path starts with root ("/"
\* when a folder is scanned, "" in an archive).
RECURSIVE ModuleFilesAre(_, _, _, _)
ModuleFilesAre(fs, n, root, budget) ==
    IF n = 0 THEN files = fs
    ELSE \E p \in ModulePaths : \E content \in ModuleContents :
            /\ \A k \in 1..Len(fs) : fs[k].path # root \o p
            /\ ~parses(content) \/ Len(content) <= budget
            /\ ModuleFilesAre(Append(fs, ModuleFile(root \o p, content)), n - 1, root,
                              IF parses(content) THEN budget - Len(content) ELSE budget)

InitModule ==
    /\ op = "init"
    /\ targetFuncName = NullName
    /\ code = <<>>
    /\ result = Null
    /\ calledFunctionNames = {}
    /\ pass2 = FALSE
    /\ nodePath = Null
    /\ dependencyMap = <<>>
    /\ store = InitialState
    /\ reply = Null
    /\ threshold = DefaultThreshold
    /\ importerPath = <<>>
    /\ importPath = <<>>
    /\ \E electron \in BOOLEAN, m \in {"upload", "folder"} :
          /\ m = "folder" => electron
          /\ isElectron = electron
          /\ params = [analysisMode |-> "module", sourceMethod |-> m,
                       targetFunction |-> NullName, sourceGiven |-> TRUE,
                       zip |-> m = "upload"]
          /\ \E n \in 1..MaxModuleFiles :
                ModuleFilesAre(<<>>, n, IF m = "folder" THEN <<"/">> ELSE <<>>,
                               MaxTotalImports)
    /\ allFilePaths = {files[k].path : k \in 1..Len(files)}
    /\ lineCount = 1
    /\ engine = NoEngine
    /\ keywordArray = <<>>
    /\ filesToAnalyze = <<>>

\* The module branch of runWebAnalysis and of the "run-analysis" handler
BuildModuleGraph ==
    /\ op = "init"
    /\ params.analysisMode = "module"
    /\ LET folder == isElectron /\ params.sourceMethod = "folder"
           all == IF folder THEN allFilePaths
                  ELSE {files[k].path : k \in 1..Len(files)}
       IN  /\ dependencyMap' = buildDependencyMap(files, 1, <<>>, folder, all)
           /\ result' = moduleGraphPayload(files, folder, all)
    /\ op' = "buildModuleGraph"
    /\ UNCHANGED <<files, targetFuncName, code, calledFunctionNames, pass2, nodePath,
                   params, isElectron, store, reply, threshold,
                   importerPath, importPath, allFilePaths, lineCount, engine, keywordArray, filesToAnalyze>>

NextModule == BuildModuleGraph

SpecModule == InitModule /\ [][NextModule]_vars

\* The specifiers imported by the file.
SpecifiersOf(file) ==
    {file.content[i].node.source.value :
        i \in {j \in 1..Len(file.content) :
                  file.content[j].node.type = "ImportDeclaration"}}

\* The specifier imported from the file at importer has the existing file
\* target among its candidates.
ResolvesTo(importer, specifier, target) ==
    LET folder == params.sourceMethod = "folder"
        candidates == Candidates(IF folder THEN relativeLabel(importer) ELSE importer,
                                 specifier)
    IN  /\ IsRelative(specifier)
        /\ target \in allFilePaths
        /\ \E c \in 1..Len(candidates) :
              target = (IF folder THEN <<"/">> ELSE <<>>) \o candidates[c]

\* C14: every node id and every edge endpoint of a module graph is the
\* path of a file of the manifest (of the scanned folder); every edge comes
\* from a relative import of its source file that has its target among its
\* candidates, and every node is a parsed file or the target of an edge: an
\* import that is not relative or matches no candidate adds nothing.
C14_NodesAreResolvedFiles ==
    op = "buildModuleGraph"
        => /\ \A n \in 1..Len(result.nodes) :
                 /\ result.nodes[n].id \in allFilePaths
                 /\ \/ \E k \in 1..Len(files) :
                          files[k].path = result.nodes[n].id /\ parses(files[k].content)
                    \/ \E e \in 1..Len(result.edges) :
                          result.edges[e].target = result.nodes[n].id
           /\ \A e \in 1..Len(result.edges) :
                 /\ result.edges[e].target \in allFilePaths
                 /\ \E k \in 1..Len(files) :
                       /\ files[k].path = result.edges[e].source
                       /\ parses(files[k].content)
                       /\ \E sp \in SpecifiersOf(files[k]) :
                             ResolvesTo(files[k].path, sp, result.edges[e].target)

\* A file imports a library, a relative path without candidate and a
\* resolvable path; the graph has exactly the one edge.
C14_Witness ==
    /\ op = "buildModuleGraph"
    /\ \E k \in 1..Len(files) :
          /\ SpecifiersOf(files[k]) = {<<"r", "e", "a", "c", "t">>, <<".", "/", "u", "t", "i", "l">>}
          /\ files[k].path = <<"a", ".", "t", "s">>
    /\ \E k \in 1..Len(files) :
          /\ SpecifiersOf(files[k]) = {<<".", "/", "n", "o", "n", "e">>}
          /\ files[k].path = <<"u", "t", "i", "l", ".", "t", "s">>
    /\ result.edges = <<[source |-> <<"a", ".", "t", "s">>, target |-> <<"u", "t", "i", "l", ".", "t", "s">>]>>
    /\ Len(result.nodes) = 2

\* What the import of specifier by the file at importer resolves to
\* (NullPath: nothing).
ResolvedImport(importer, specifier) ==
    IF isElectron /\ params.sourceMethod = "folder"
    THEN resolveImportPath(importer, specifier, allFilePaths)
    ELSE resolveVirtualPath(importer, specifier, allFilePaths)

NodeIds(r) == {r.nodes[n].id : n \in 1..Len(r.nodes)}

\* C26: a file that fails to parse has no entry in the dependency map and
\* is the source of no edge; every file that parses has its entry and is a
\* node; the failing file is a node exactly when an import of a file that
\* parses resolves to it.
C26_FailedFileHasNoEdges ==
    op = "buildModuleGraph"
        => \A k \in 1..Len(files) :
              IF parses(files[k].content)
              THEN /\ \E j \in 1..Len(dependencyMap) : dependencyMap[j].file = files[k].path
                   /\ files[k].path \in NodeIds(result)
              ELSE /\ \A j \in 1..Len(dependencyMap) : dependencyMap[j].file # files[k].path
                   /\ \A e \in 1..Len(result.edges) : result.edges[e].source # files[k].path
                   /\ files[k].path \in NodeIds(result)
                         <=> \E g \in 1..Len(files) :
                                /\ parses(files[g].content)
                                /\ \E sp \in SpecifiersOf(files[g]) :
                                      ResolvedImport(files[g].path, sp) = files[k].path

\* The first file fails to parse, the second imports it: both are nodes
\* and the one edge leads to the failing file.
C26_Witness ==
    /\ op = "buildModuleGraph"
    /\ Len(files) = 2
    /\ ~parses(files[1].content)
    /\ Len(dependencyMap) = 1
    /\ NodeIds(result) = {files[1].path, files[2].path}
    /\ result.edges = <<[source |-> files[2].path, target |-> files[1].path]>>

-----------------------------------------------------------------------------
(* Complexity Estimator *)

\* A statement or expression of the given type, e.g. if (a) {}
Construct(t, d) == [node |-> [type |-> t], parent |-> Program, depth |-> d]

\* a && b, a || b, a ?? b
LogicalExpression(operator, d) ==
    [node |-> [type |-> "LogicalExpression", operator |-> operator],
     parent |-> Program, depth |-> d]

\* The node types whose visitor increments complexity unconditionally.
CountedTypes ==
    {"IfStatement", "ForStatement", "WhileStatement", "DoWhileStatement",
     "SwitchCase", "ConditionalExpression"}

\* As VisitComplexity below, counting every logical expression.
RECURSIVE VisitComplexityAnyOperator(_, _, _)
VisitComplexityAnyOperator(content, i, complexity) ==
    IF i > Len(content) THEN complexity
    ELSE IF content[i].node.type \in CountedTypes
    THEN VisitComplexityAnyOperator(content, i + 1, complexity + 1)
    ELSE IF content[i].node.type = "LogicalExpression"
    THEN VisitComplexityAnyOperator(content, i + 1, complexity + 1)
    ELSE VisitComplexityAnyOperator(content, i + 1, complexity)

\* traverse(ast, { IfStatement, ..., LogicalExpression }) over the nodes i..
RECURSIVE VisitComplexity(_, _, _)
VisitComplexity(content, i, complexity) ==
    IF i > Len(content) THEN complexity
    ELSE IF content[i].node.type \in CountedTypes
    THEN VisitComplexity(content, i + 1, complexity + 1)
    ELSE IF /\ content[i].node.type = "LogicalExpression"
            /\ content[i].node.operator \in {"&&", "||"}
    THEN VisitComplexity(content, i + 1, complexity + 1)
    ELSE VisitComplexity(content, i + 1, complexity)

\* As lineHeuristic below, without Math.max(1, ...).
lineHeuristicUnbounded(lines) == (lines + 5) \div 10

\* Math.max(1, Math.round(code.split("\n").length / 10))
lineHeuristic(lines) ==
    LET rounded == (lines + 5) \div 10
    IN  IF rounded > 1 THEN rounded ELSE 1

\* calculateComplexity(code), for the code of the given nodes and lines
calculateComplexity(content, lines) ==
    IF ~parses(content) THEN lineHeuristic(lines)
    ELSE VisitComplexity(content, 1, 1)

-----------------------------------------------------------------------------
(* Specification of the complexity estimator *)

MaxComplexityNodes == 3    \* modelled nodes of the code
MaxLines == 26             \* lines of the code

\* The nodes the code is made of, at depth d.
ComplexityNodes(d) ==
    {Construct(t, d) : t \in CountedTypes \cup {"ForOfStatement", "ForInStatement"}}
        \cup {LogicalExpression(o, d) : o \in {"&&", "||", "??"}}
        \cup {FunctionDeclaration("A", d)}

\* code is content followed by left more nodes.
RECURSIVE ComplexityCodeIs(_, _)
ComplexityCodeIs(content, left) ==
    IF left = 0 THEN code = content
    ELSE \E d \in NextDepths(content) : \E x \in ComplexityNodes(d) :
            ComplexityCodeIs(Append(content, x), left - 1)

InitComplexity ==
    /\ op = "init"
    /\ files = <<>>
    /\ targetFuncName = NullName
    /\ \/ \E n \in 0..MaxComplexityNodes : ComplexityCodeIs(<<>>, n)
       \/ code = <<SyntaxError>>
    /\ result = 0
    /\ calledFunctionNames = {}
    /\ pass2 = FALSE
    /\ nodePath = Null
    /\ dependencyMap = <<>>
    /\ NoRequest
    /\ threshold = DefaultThreshold
    /\ lineCount \in 1..MaxLines
    /\ engine = NoEngine
    /\ keywordArray = <<>>
    /\ filesToAnalyze = <<>>

\* calculateComplexity(code)
CalculateComplexity ==
    /\ op = "init"
    /\ result' = calculateComplexity(code, lineCount)
    /\ op' = "calculateComplexity"
    /\ UNCHANGED <<files, targetFuncName, code, calledFunctionNames, pass2, nodePath,
                   dependencyMap, params, isElectron, store, reply, threshold,
                   importerPath, importPath, allFilePaths, lineCount, engine, keywordArray, filesToAnalyze>>

NextComplexity == CalculateComplexity

SpecComplexity == InitComplexity /\ [][NextComplexity]_vars

\* The positions of the nodes of the given types.
NodesOfType(content, types) == {i \in 1..Len(content) : content[i].node.type \in types}

\* C15: for code that parses, calculateComplexity returns 1 plus the number
\* of if statements, for, while and do-while statements, switch cases,
\* ternary expressions and && / || expressions, nested functions included;
\* function f(){ if(a){} else if(b){} } yields 3.
C15_OnePlusDecisions ==
    op = "calculateComplexity" /\ parses(code)
        => /\ result
                = 1 + Cardinality(NodesOfType(code, {"IfStatement"}))
                    + Cardinality(NodesOfType(code, {"ForStatement", "WhileStatement",
                                                     "DoWhileStatement"}))
                    + Cardinality(NodesOfType(code, {"SwitchCase"}))
                    + Cardinality(NodesOfType(code, {"ConditionalExpression"}))
                    + Cardinality({i \in NodesOfType(code, {"LogicalExpression"}) :
                                      code[i].node.operator \in {"&&", "||"}})
           /\ code = <<FunctionDeclaration("A", 0), Construct("IfStatement", 1),
                       Construct("IfStatement", 1)>>
                 => result = 3

\* function A(){ if(a){} else if(b){} } has been estimated at 3.
C15_Witness ==
    /\ op = "calculateComplexity"
    /\ code = <<FunctionDeclaration("A", 0), Construct("IfStatement", 1),
                Construct("IfStatement", 1)>>
    /\ result = 3

\* C16: calculateComplexity returns an integer of at least 1 on every
\* input; for code that does not parse it is lineCount / 10 rounded to the
\* nearest integer (halves upwards), and 1 if that is less.
C16_FallbackAndFloor ==
    op = "calculateComplexity"
        => /\ result \in Nat
           /\ result >= 1
           /\ ~parses(code)
                 => /\ lineCount < 15 => result = 1
                    /\ lineCount >= 15
                          => /\ 10 * result - 5 <= lineCount
                             /\ lineCount < 10 * result + 5

\* Code of 25 lines that does not parse has been estimated at 3, and code of
\* 4 lines at 1.
C16_Witness ==
    /\ op = "calculateComplexity"
    /\ ~parses(code)
    /\ \/ lineCount = 25 /\ result = 3
       \/ lineCount = 4 /\ result = 1

-----------------------------------------------------------------------------
(* Keyword Finder *)

\* class C { f() {} }
ClassMethod(n, d) ==
    [node |-> [type |-> "ClassMethod", key |-> Identifier(n)],
     parent |-> [type |-> "ClassBody"], depth |-> d]

\* { f: () => {} }
ArrowProperty(n, d) ==
    [node |-> [type |-> "ArrowFunctionExpression"],
     parent |-> [type |-> "ObjectProperty", key |-> Identifier(n)], depth |-> d]

\* { f: function () {} }
FunctionProperty(n, d) ==
    [node |-> [type |-> "FunctionExpression", id |-> Null],
     parent |-> [type |-> "ObjectProperty", key |-> Identifier(n)], depth |-> d]

\* The text from node.start to the start of the first child, as a sequence
\* of characters: a declaration and a method start with their name, a
\* function or arrow expression starts after the name it is bound to.
openText(x) ==
    CASE x.node.type = "FunctionDeclaration" -> <<x.node.id.name, "{">>
      [] x.node.type = "ClassMethod" -> <<x.node.key.name, "{">>
      [] x.node.type \in {"FunctionExpression", "ArrowFunctionExpression"} -> <<"{">>
      [] x.node.type = "CallExpression" /\ isIdentifier(x.node.callee)
            -> <<x.node.callee.name, "(">>
      [] x.node.type = "CallExpression" /\ isIdentifier(x.node.callee.property)
            -> <<"o", ".", x.node.callee.property.name, "(">>
      [] OTHER -> <<"o", "[", "]", "(">>

\* The text from the end of the last child to node.end.
closeText(x) == IF isFunction(x) THEN <<"}">> ELSE <<")">>

\* code.slice(path.node.start, path.node.end) for the node at position i
\* (slice), and the text of the nodes j..last that follow one another
\* (sliceAll).
RECURSIVE slice(_, _)
RECURSIVE sliceAll(_, _, _)
slice(content, i) ==
    openText(content[i]) \o sliceAll(content, i + 1, SubtreeEnd(content, i))
        \o closeText(content[i])

sliceAll(content, j, last) ==
    IF j > last THEN <<>>
    ELSE slice(content, j) \o sliceAll(content, SubtreeEnd(content, j) + 1, last)

\* String.prototype.toLowerCase, on the characters of the model
toLowerCase(s) ==
    [i \in 1..Len(s) |-> CASE s[i] = "A" -> "a" [] s[i] = "B" -> "b" [] OTHER -> s[i]]

\* lowerCaseKeywords.forEach((keyword, index) => ...), from index k on
RECURSIVE forEachKeyword(_, _, _, _)
forEachKeyword(lowerCaseContent, keywords, k, foundKeywords) ==
    IF k > Len(keywords) THEN foundKeywords
    ELSE forEachKeyword(lowerCaseContent, keywords, k + 1,
                        IF includes(lowerCaseContent, toLowerCase(keywords[k]))
                        THEN SetAdd(foundKeywords, keywords[k])
                        ELSE foundKeywords)

\* The Function visitor over the nodes i.. of the code
RECURSIVE VisitFunctions(_, _, _, _)
VisitFunctions(content, keywords, i, findings) ==
    IF i > Len(content) THEN findings
    ELSE IF ~isFunction(content[i]) \/ getFunctionNameCore(content[i]) = NullName
    THEN VisitFunctions(content, keywords, i + 1, findings)
    ELSE LET functionName == getFunctionNameCore(content[i])
             functionContent == slice(content, i)
             foundKeywords == forEachKeyword(toLowerCase(functionContent), keywords,
                                             1, <<>>)
         IN  IF /\ Len(foundKeywords) > 0
                /\ ~\E f \in 1..Len(findings) : findings[f].functionName = functionName
             THEN VisitFunctions(content, keywords, i + 1,
                                 Append(findings,
                                        [functionName |-> functionName,
                                         foundKeywords |-> foundKeywords,
                                         content |-> functionContent]))
             ELSE VisitFunctions(content, keywords, i + 1, findings)

\* runAdvancedKeywordAnalysis(code, keywordArray)
runAdvancedKeywordAnalysis(content, keywords) ==
    IF ~parses(content) THEN <<>> ELSE VisitFunctions(content, keywords, 1, <<>>)

-----------------------------------------------------------------------------
(* Specification of the keyword finder *)

MaxKeywordNodes == 3   \* modelled nodes in the code
MaxKeywords == 2       \* keywords in keywordArray

\* The keywords a user can enter.
Keywords == {<<"a">>, <<"A">>, <<"b">>, <<"x">>}

\* The nodes the code of the keyword model is made of, at depth d.
KeywordNodes(d) ==
    {FunctionDeclaration(n, d) : n \in Names}
        \cup {ArrowVariable(n, d) : n \in Names}
        \cup {ClassMethod(n, d) : n \in Names}
        \cup {ArrowProperty(n, d) : n \in Names}
        \cup {FunctionProperty(n, d) : n \in Names}
        \cup {AnonymousArgument(d)}
        \cup {CallIdentifier(n, d) : n \in Names}

\* code is content followed by left more nodes.
RECURSIVE KeywordCodeIs(_, _)
KeywordCodeIs(content, left) ==
    IF left = 0 THEN code = content
    ELSE \E d \in NextDepths(content) : \E x \in KeywordNodes(d) :
            KeywordCodeIs(Append(content, x), left - 1)

InitKeyword ==
    /\ op = "init"
    /\ files = <<>>
    /\ targetFuncName = NullName
    /\ \/ \E n \in 0..MaxKeywordNodes : KeywordCodeIs(<<>>, n)
       \/ code = <<SyntaxError>>
    /\ result = Null
    /\ calledFunctionNames = {}
    /\ pass2 = FALSE
    /\ nodePath = Null
    /\ dependencyMap = <<>>
    /\ NoRequest
    /\ threshold = DefaultThreshold
    /\ lineCount = 1
    /\ engine = NoEngine
    /\ keywordArray \in UNION {[1..n -> Keywords] : n \in 0..MaxKeywords}
    /\ filesToAnalyze = <<>>

\* runAdvancedKeywordAnalysis(code, keywordArray)
RunAdvancedKeywordAnalysis ==
    /\ op = "init"
    /\ result' = runAdvancedKeywordAnalysis(code, keywordArray)
    /\ op' = "runAdvancedKeywordAnalysis"
    /\ UNCHANGED <<files, targetFuncName, code, calledFunctionNames, pass2, nodePath,
                   dependencyMap, params, isElectron, store, reply, threshold,
                   importerPath, importPath, allFilePaths, lineCount, engine,
                   keywordArray, filesToAnalyze>>

NextKeyword == RunAdvancedKeywordAnalysis

SpecKeyword == InitKeyword /\ [][NextKeyword]_vars

\* The name of the function by the four named forms (NullName: none).
NamedAs(p) ==
    IF IsNamedDeclaration(p) THEN p.node.id.name
    ELSE IF IsVariableBinding(p) THEN p.parent.id.name
    ELSE IF IsClassMethodForm(p) THEN p.node.key.name
    ELSE IF IsObjectLiteralForm(p) THEN p.parent.key.name
    ELSE NullName

\* The positions of the functions of the code named n.
NamedFunctions(n) ==
    {i \in 1..Len(code) : isFunction(code[i]) /\ NamedAs(code[i]) = n}

\* The indexes of the keywords the text of the function at i contains, case
\* ignored.
Matched(i) ==
    {k \in 1..Len(keywordArray) :
        includes(toLowerCase(slice(code, i)), toLowerCase(keywordArray[k]))}

\* C19: for every name of a function whose text contains a keyword (case
\* ignored) the result holds exactly one finding, and no two findings have
\* the same name; every finding belongs to a function of its name that
\* contains a keyword, and holds the text of that function and exactly the
\* keywords it contains, each once and as the user spelled it.
C19_OneFindingPerMatchingFunction ==
    op = "runAdvancedKeywordAnalysis" /\ parses(code)
        => /\ \A n \in Names :
                 (\E i \in NamedFunctions(n) : Matched(i) # {})
                    => Cardinality({f \in 1..Len(result) :
                                       result[f].functionName = n}) = 1
           /\ \A f, g \in 1..Len(result) :
                 result[f].functionName = result[g].functionName => f = g
           /\ \A f \in 1..Len(result) :
                 \E i \in NamedFunctions(result[f].functionName) :
                    /\ Matched(i) # {}
                    /\ result[f].content = slice(code, i)
                    /\ {result[f].foundKeywords[k] :
                           k \in 1..Len(result[f].foundKeywords)}
                          = {keywordArray[k] : k \in Matched(i)}
                    /\ \A k, l \in 1..Len(result[f].foundKeywords) :
                          result[f].foundKeywords[k] = result[f].foundKeywords[l]
                             => k = l

-----------------------------------------------------------------------------
(* Report and graph of a dependency result *)

\* createDependencyGraphData(target, dependencies): nodes from position i on
RECURSIVE GraphNodes(_, _, _)
GraphNodes(dependencies, i, nodes) ==
    IF i > Len(dependencies) THEN nodes
    ELSE IF \E k \in 1..Len(nodes) : nodes[k] = dependencies[i].name
         THEN GraphNodes(dependencies, i + 1, nodes)
         ELSE GraphNodes(dependencies, i + 1, Append(nodes, dependencies[i].name))

createDependencyGraphData(target, dependencies) ==
    [nodes |-> GraphNodes(dependencies, 1, <<target>>),
     edges |-> [i \in 1..Len(dependencies) |->
                   [source |-> target, target |-> dependencies[i].name]]]

\* findings.reduce(...): the findings grouped by file, in order of first
\* appearance of the file.
RECURSIVE groupedByFile(_, _, _)
groupedByFile(findings, i, acc) ==
    IF i > Len(findings) THEN acc
    ELSE LET ks == {k \in 1..Len(acc) : acc[k].file = findings[i].file}
         IN  IF ks = {}
             THEN groupedByFile(findings, i + 1,
                                Append(acc, [file |-> findings[i].file,
                                             deps |-> <<findings[i]>>]))
             ELSE LET k == CHOOSE k \in ks : TRUE
                  IN  groupedByFile(findings, i + 1,
                                    [acc EXCEPT ![k].deps = Append(@, findings[i])])

\* processAnalysisResult(result, targetFunctionName)
processAnalysisResult(r, targetFunctionName) ==
    [report |-> [kind |-> "report",
                 targetFunction |-> IF r.target # Null THEN targetFunctionName
                                    ELSE NullName,
                 target |-> r.target,
                 sources |-> groupedByFile(r.findings, 1, <<>>)],
     graphData |-> createDependencyGraphData(targetFunctionName, r.findings)]

\* Messages of setError, by the place that produces them.
NoResultReceived == "no analysis result received"
UnknownError == "unknown error"
ResultNotFound == "analysis result not found"
UnknownAnalysisType == "unknown analysis type"
SourceCodeRequired == "source code to analyse is required"
NoFilesToAnalyze == "no files to analyse"
FolderPathRequired == "folder path is required"
FileRequired == "a file must be selected"
NoSourceFilesFound == "no source code files found"
PasteNotSupported == "module analysis does not support pasted code"

\* handleAnalysisResult(result, targetFunction) on store state s
handleAnalysisResult(s, r, targetFunction) ==
    IF r = Null THEN setError(s, NoResultReceived)
    ELSE IF "error" \in DOMAIN r
    THEN setError(s, IF r.error = "" THEN UnknownError ELSE r.error)
    ELSE IF r.analysisType = "module-graph"
    THEN [s EXCEPT !.isLoading = FALSE,
                   !.moduleGraphData = [nodes |-> r.nodes, edges |-> r.edges],
                   !.extractionResult = [kind |-> "modules", count |-> Len(r.nodes)]]
    ELSE IF r.analysisType = "dependency"
    THEN IF r.target = Null
         THEN setError(s, ResultNotFound)
         ELSE LET processed == processAnalysisResult(r, targetFunction)
              IN  setSuccess(s, processed.report, processed.graphData)
    ELSE setError(s, UnknownAnalysisType)

-----------------------------------------------------------------------------
(* Request pipeline *)

\* path of the file made of pasted code
PastedTs == <<"p", "a", "s", "t", "e", "d", ".", "t", "s">>

\* filesToAnalyze.push({ name: "Pasted Code", content: pastedCode,
\* path: "pasted.ts" }): the fields the branch of the mode reads.
pastedFile(p, fs) ==
    IF p.analysisMode = "module" THEN ModuleFile(PastedTs, fs[1].content)
    ELSE [name |-> "Pasted Code", content |-> fs[1].content]

\* As filesToAnalyzeWeb below, without the check of the length.
filesToAnalyzeWebUnchecked(p, fs) ==
    IF p.sourceMethod = "paste"
    THEN IF ~p.sourceGiven THEN [thrown |-> SourceCodeRequired, files |-> <<>>]
         ELSE [thrown |-> NullName, files |-> <<pastedFile(p, fs)>>]
    ELSE [thrown |-> NullName,
          files |-> IF p.sourceMethod = "upload" /\ p.sourceGiven THEN fs ELSE <<>>]

\* filesToAnalyze of runWebAnalysis: the files of the request p whose source
\* holds fs, or the message of the error thrown.
filesToAnalyzeWeb(p, fs) ==
    IF p.sourceMethod = "paste"
    THEN IF ~p.sourceGiven THEN [thrown |-> SourceCodeRequired, files |-> <<>>]
         ELSE [thrown |-> NullName, files |-> <<pastedFile(p, fs)>>]
    ELSE LET listed == IF p.sourceMethod = "upload" /\ p.sourceGiven THEN fs ELSE <<>>
         IN  IF Len(listed) = 0 THEN [thrown |-> NoFilesToAnalyze, files |-> <<>>]
             ELSE [thrown |-> NullName, files |-> listed]

\* new Set(filesToAnalyze.map((f) => f.path))
pathsOf(fs) == {fs[k].path : k \in 1..Len(fs)}

\* runWebAnalysis(params), the preparation of the files having thrown or
\* left filesToAnalyze with the paths allFilePaths: the analysis step
\* entered, its value and the value returned, or the message of the error
\* thrown.
runWebAnalysis(p, thrown, filesToAnalyze_, allFilePaths_) ==
    IF thrown # NullName
    THEN [thrown |-> thrown, engine |-> NoEngine, analysisResult |-> Null,
          value |-> Null]
    ELSE IF p.analysisMode = "dependency"
    THEN LET analysisResult ==
                 runDependencyAnalysis(filesToAnalyze_, p.targetFunction).ret
         IN  [thrown |-> NullName, engine |-> "runDependencyAnalysis",
              analysisResult |-> analysisResult,
              value |-> IF analysisResult = Null \/ analysisResult.target = Null
                        THEN Null
                        ELSE [analysisType |-> "dependency",
                              target |-> analysisResult.target,
                              findings |-> analysisResult.dependencies]]
    ELSE IF p.analysisMode = "module"
    THEN LET payload == moduleGraphPayload(filesToAnalyze_, FALSE, allFilePaths_)
         IN  [thrown |-> NullName, engine |-> "module",
              analysisResult |-> payload, value |-> payload]
    ELSE [thrown |-> NullName, engine |-> NoEngine,
          analysisResult |-> Null, value |-> Null]

\* runAnalysis after startAnalysis, outside Electron, on store state s:
\* try { handleAnalysisResult(finalResult, ...) } catch { setError(...) }
runAnalysisWeb(s, finalResult, targetFunction) ==
    IF finalResult.thrown # NullName THEN setError(s, finalResult.thrown)
    ELSE handleAnalysisResult(s, finalResult.value, targetFunction)

\* As filesToAnalyzeMain below, without the check of the length.
filesToAnalyzeMainUnchecked(p, fs) ==
    IF ~p.sourceGiven
    THEN [thrown |-> CASE p.sourceMethod = "folder" -> FolderPathRequired
                       [] p.sourceMethod = "upload" -> FileRequired
                       [] OTHER -> SourceCodeRequired,
          files |-> <<>>]
    ELSE [thrown |-> NullName,
          files |-> IF p.sourceMethod = "paste" THEN <<pastedFile(p, fs)>> ELSE fs]

\* filesToAnalyze of the "run-analysis" handler.
filesToAnalyzeMain(p, fs) ==
    IF ~p.sourceGiven
    THEN [thrown |-> CASE p.sourceMethod = "folder" -> FolderPathRequired
                       [] p.sourceMethod = "upload" -> FileRequired
                       [] OTHER -> SourceCodeRequired,
          files |-> <<>>]
    ELSE IF p.sourceMethod = "paste"
    THEN [thrown |-> NullName, files |-> <<pastedFile(p, fs)>>]
    ELSE IF Len(fs) = 0 THEN [thrown |-> NoSourceFilesFound, files |-> <<>>]
    ELSE [thrown |-> NullName, files |-> fs]

\* The payload of the react-analysis branch; tree, godComponents and report
\* are not modelled.
reactAnalysisPayload == [analysisType |-> "react-analysis"]

\* The "run-analysis" handler, the preparation of the files having thrown
\* or left filesToAnalyze with the paths allFilePaths: the analysis step
\* entered, its value and the "analysis-result" message replied (Null: no
\* message).
runAnalysisMain(p, thrown, filesToAnalyze_, allFilePaths_) ==
    IF thrown # NullName
    THEN [engine |-> NoEngine, analysisResult |-> Null, reply |-> [error |-> thrown]]
    ELSE IF p.analysisMode = "module"
    THEN IF p.sourceMethod = "paste"
         THEN [engine |-> NoEngine, analysisResult |-> Null,
               reply |-> [error |-> PasteNotSupported]]
         ELSE LET payload == moduleGraphPayload(filesToAnalyze_,
                                                p.sourceMethod = "folder",
                                                allFilePaths_)
              IN  [engine |-> "module", analysisResult |-> payload, reply |-> payload]
    ELSE IF p.analysisMode = "react-analysis"
    THEN [engine |-> "analyzeReactComponents",
          analysisResult |-> reactAnalysisPayload,
          reply |-> reactAnalysisPayload]
    ELSE IF p.analysisMode = "dependency"
    THEN LET analysisResult ==
                 runDependencyAnalysis(filesToAnalyze_, p.targetFunction).ret
         IN  [engine |-> "runDependencyAnalysis",
              analysisResult |-> analysisResult,
              reply |-> [analysisType |-> "dependency",
                         target |-> IF analysisResult = Null THEN Null
                                    ELSE analysisResult.target,
                         findings |-> IF analysisResult = Null THEN <<>>
                                      ELSE analysisResult.dependencies]]
    ELSE [engine |-> NoEngine, analysisResult |-> Null, reply |-> Null]

-----------------------------------------------------------------------------
(* Specification of the request pipeline *)

MaxRequestNodes == 2   \* modelled nodes in all sources of one request
MaxOtherNodes == 1     \* the same, in the modes whose analysis is not modelled
MaxRequestImports == 1 \* import declarations in all sources of a module request

SourceMethods == {"paste", "upload", "folder"}

AnalysisModes == {"dependency", "module", "react-analysis", "heatmap"}

EmptyName == ""

\* The source of request p can hold the files fs.
SourceHolds(p, fs) ==
    IF ~p.sourceGiven THEN fs = <<>>
    ELSE IF p.sourceMethod = "paste" \/ (p.sourceMethod = "upload" /\ ~p.zip)
    THEN Len(fs) = 1
    ELSE TRUE

\* The stores a request can start from: the initial one, and those a
\* previous request has left.
PreviousReport == [kind |-> "report", targetFunction |-> "A", target |-> Null,
                   sources |-> <<>>]

PreviousStores ==
    {InitialState,
     setSuccess(InitialState, PreviousReport, [nodes |-> <<"A">>, edges |-> <<>>]),
     [InitialState EXCEPT
         !.moduleGraphData = [nodes |-> <<[id |-> <<"a", ".", "t", "s">>, label |-> <<"a", ".", "t", "s">>]>>,
                              edges |-> <<>>],
         !.extractionResult = [kind |-> "modules", count |-> 1]]}

InitRequest ==
    /\ op = "init"
    /\ code = <<>>
    /\ result = Null
    /\ calledFunctionNames = {}
    /\ pass2 = FALSE
    /\ nodePath = Null
    /\ dependencyMap = <<>>
    /\ isElectron \in BOOLEAN
    /\ \E mode \in AnalysisModes, m \in SourceMethods, given \in BOOLEAN,
          z \in BOOLEAN :
          /\ z => m = "upload" /\ given
          /\ targetFuncName \in (IF mode = "dependency" THEN Names \cup {EmptyName}
                                  ELSE {EmptyName})
          /\ params = [analysisMode |-> mode, sourceMethod |-> m,
                       targetFunction |-> targetFuncName, sourceGiven |-> given,
                       zip |-> z]
          /\ IF mode = "module"
             THEN \E n \in 0..MaxModuleFiles :
                     ModuleFilesAre(<<>>, n, IF m = "folder" THEN <<"/">> ELSE <<>>,
                                    MaxRequestImports)
             ELSE \E n \in 0..MaxFiles :
                     FilesAre(n, IF mode = "dependency" THEN MaxRequestNodes
                                 ELSE MaxOtherNodes, <<>>)
    /\ SourceHolds(params, files)
    /\ store \in PreviousStores
    /\ reply = Null
    /\ threshold = DefaultThreshold
    /\ importerPath = <<>>
    /\ importPath = <<>>
    /\ allFilePaths = {}
    /\ lineCount = 1
    /\ engine = NoEngine
    /\ keywordArray = <<>>
    /\ filesToAnalyze = <<>>

\* runAnalysis(params) up to the request to the main process or the await
RunAnalysis ==
    /\ op = "init"
    /\ store' = startAnalysis(store)
    /\ op' = IF isElectron THEN "run-analysis" ELSE "runWebAnalysis"
    /\ UNCHANGED <<files, targetFuncName, code, result, calledFunctionNames, pass2,
                   nodePath, dependencyMap, params, isElectron, reply, threshold,
                   importerPath, importPath, allFilePaths, lineCount, engine, keywordArray, filesToAnalyze>>

\* runAnalysis(params) from the await of runWebAnalysis on
RunWebAnalysis ==
    /\ op = "runWebAnalysis"
    /\ filesToAnalyze' = filesToAnalyzeWeb(params, files).files
    /\ allFilePaths' = IF params.analysisMode = "module" THEN pathsOf(filesToAnalyze')
                       ELSE allFilePaths
    /\ result' = runWebAnalysis(params, filesToAnalyzeWeb(params, files).thrown,
                                filesToAnalyze', allFilePaths')
    /\ engine' = result'.engine
    /\ store' = runAnalysisWeb(store, result', params.targetFunction)
    /\ op' = "done"
    /\ UNCHANGED <<files, targetFuncName, code, calledFunctionNames, pass2,
                   nodePath, dependencyMap, params, isElectron, reply, threshold,
                   importerPath, importPath, lineCount, keywordArray>>

\* ipcMain.on("run-analysis", ...)
RunAnalysisMain ==
    /\ op = "run-analysis"
    /\ filesToAnalyze' = filesToAnalyzeMain(params, files).files
    /\ allFilePaths' = IF params.analysisMode = "module" THEN pathsOf(filesToAnalyze')
                       ELSE allFilePaths
    /\ result' = runAnalysisMain(params, filesToAnalyzeMain(params, files).thrown,
                                 filesToAnalyze', allFilePaths')
    /\ engine' = result'.engine
    /\ reply' = result'.reply
    /\ op' = IF reply' = Null THEN "no-reply" ELSE "analysis-result"
    /\ UNCHANGED <<files, targetFuncName, code, calledFunctionNames, pass2,
                   nodePath, dependencyMap, params, isElectron, store, threshold,
                   importerPath, importPath, lineCount, keywordArray>>

\* The listener of onAnalysisResult
OnAnalysisResult ==
    /\ op = "analysis-result"
    /\ store' = handleAnalysisResult(store, reply, params.targetFunction)
    /\ reply' = Null
    /\ op' = "done"
    /\ UNCHANGED <<files, targetFuncName, code, result, calledFunctionNames, pass2,
                   nodePath, dependencyMap, params, isElectron, threshold,
                   importerPath, importPath, allFilePaths, lineCount, engine, keywordArray, filesToAnalyze>>

NextRequest == RunAnalysis \/ RunWebAnalysis \/ RunAnalysisMain \/ OnAnalysisResult

SpecRequest == InitRequest /\ [][NextRequest]_vars

\* The request reads its sources, every source parses, and none defines a
\* function named like the target.
TargetNotFound ==
    /\ params.analysisMode = "dependency"
    /\ targetFuncName # EmptyName
    /\ params.sourceGiven
    /\ isElectron \/ params.sourceMethod # "folder"
    /\ files # <<>>
    /\ \A k \in 1..Len(files) :
          parses(files[k].content)
             /\ FunctionsNamed(files[k].content, targetFuncName) = {}

\* A source that does not parse, and a request without its source.
UnparseableSource == <<File(1, <<SyntaxError>>)>>

WithoutSource == [params EXCEPT !.sourceGiven = FALSE, !.zip = FALSE]

\* The final store of the request p on the files fs.
FinalStore(p, fs) ==
    IF isElectron
    THEN handleAnalysisResult(startAnalysis(InitialState),
                              runAnalysisMain(p, filesToAnalyzeMain(p, fs).thrown,
                                              filesToAnalyzeMain(p, fs).files,
                                              {}).reply,
                              p.targetFunction)
    ELSE runAnalysisWeb(startAnalysis(InitialState),
                        runWebAnalysis(p, filesToAnalyzeWeb(p, fs).thrown,
                                       filesToAnalyzeWeb(p, fs).files, {}),
                        p.targetFunction)

IsError(s) == s.extractionResult.kind = "error"

\* C5: a dependency request whose target function does not exist ends in a
\* store that records no error, and neither the value the engine returned
\* nor the final store equals that of a request whose source does not parse
\* or of a request that fails for want of its source.
C5_NotFoundIsNotFailure ==
    op = "done" /\ TargetNotFound
        => /\ ~IsError(store)
           /\ result.analysisResult # runDependencyAnalysis(UnparseableSource, targetFuncName).ret
           /\ store # FinalStore(params, UnparseableSource)
           /\ store # FinalStore(WithoutSource, <<>>)


\* The messages of the errors raised while the files of a request are
\* prepared.
RequestLevelErrors ==
    {SourceCodeRequired, NoFilesToAnalyze, FolderPathRequired, FileRequired,
     NoSourceFilesFound}

\* The request has been answered: runWebAnalysis has returned or thrown, or
\* the "run-analysis" handler has run to its end.
Answered == op \in {"analysis-result", "no-reply", "done"}

\* C17: a request whose manifest is empty (no source given, or a source that
\* holds no file) fails with an error of the preparation of the files, in
\* every analysis mode and for every source method: no analysis step is
\* entered and no value computed, the main process replies the error, and
\* the store ends with that error.
C17_EmptyManifestFails ==
    files = <<>> /\ Answered
        => /\ engine = NoEngine
           /\ result.analysisResult = Null
           /\ op # "no-reply"
           /\ op = "analysis-result"
                 => "error" \in DOMAIN reply /\ reply.error \in RequestLevelErrors
           /\ op = "done"
                 => \E e \in RequestLevelErrors : store = setError(InitialState, e)

\* A folder of the desktop application that holds no source file, scanned
\* for a module graph: the request ended in the error.
C17_Witness ==
    /\ files = <<>>
    /\ params.sourceGiven
    /\ params.sourceMethod = "folder"
    /\ params.analysisMode = "module"
    /\ isElectron
    /\ op = "done"
    /\ store = setError(InitialState, NoSourceFilesFound)


\* The request is a dependency analysis whose files have been prepared.
DependencyRequestPrepared ==
    /\ params.analysisMode = "dependency"
    /\ Answered
    /\ IF isElectron THEN filesToAnalyzeMain(params, files).thrown = NullName
       ELSE filesToAnalyzeWeb(params, files).thrown = NullName

\* C18: a dependency request with an empty target name is rejected with a
\* request-level error and no analysis step is entered for it; a request
\* with a target name whose analysis finds nothing (no function of that
\* name, or a source that does not parse) raises no error.
C18_EmptyTargetRejected ==
    DependencyRequestPrepared
        => /\ targetFuncName = EmptyName
                 => /\ engine = NoEngine
                    /\ op = "analysis-result" => "error" \in DOMAIN reply
                    /\ op = "done" => IsError(store)
           /\ targetFuncName # EmptyName /\ result.analysisResult = Null
                 => /\ engine = "runDependencyAnalysis"
                    /\ op = "analysis-result" => "error" \notin DOMAIN reply
                    /\ ~isElectron => filesToAnalyzeWeb(params, files).thrown = NullName


\* runAnalysis has been invoked and no result has reached the store.
ResultPending == op \in {"runWebAnalysis", "run-analysis", "analysis-result", "no-reply"}

\* C20: from the invocation of runAnalysis until a result reaches the store,
\* isLoading is true and the report and both graphs are empty, whatever the
\* previous request has left in the store.
C20_LoadingBeforeResult ==
    ResultPending
        => /\ store.isLoading
           /\ store.extractionResult = NoText
           /\ store.graphData = EmptyGraph
           /\ store.moduleGraphData = EmptyGraph

\* runAnalysis has just been invoked in the browser: the store is loading
\* and cleared, and nothing has been computed.
C20_Witness ==
    /\ op = "runWebAnalysis"
    /\ store = startAnalysis(InitialState)
    /\ result = Null
    /\ engine = NoEngine


\* No step of the request is left: the result has been handled, or the
\* "run-analysis" handler has returned without an "analysis-result" message.
RequestEnded == op \in {"done", "no-reply"}

LoadingEndsInHandledModes ==
    RequestEnded /\ (isElectron => params.analysisMode # "heatmap")
        => op = "done" /\ ~store.isLoading

-----------------------------------------------------------------------------
(* Specification of the reading of the manifest *)

MaxManifestNodes == 2     \* modelled nodes in all files of the manifest
MaxManifestImports == 1   \* import declarations in all files of the manifest

\* files is the manifest: the matching entries of the archive, or the files
\* of the scanned folder, in the order they are read.  filesToAnalyze is
\* the list the loop has pushed so far.
InitManifest ==
    /\ op = "reading"
    /\ code = <<>>
    /\ result = Null
    /\ calledFunctionNames = {}
    /\ pass2 = FALSE
    /\ nodePath = Null
    /\ dependencyMap = <<>>
    /\ isElectron \in BOOLEAN
    /\ targetFuncName \in Names
    /\ \E mode \in {"dependency", "module"}, m \in {"upload", "folder"} :
          /\ m = "folder" => isElectron
          /\ params = [analysisMode |-> mode, sourceMethod |-> m,
                       targetFunction |-> targetFuncName, sourceGiven |-> TRUE,
                       zip |-> m = "upload"]
          /\ IF mode = "module"
             THEN \E n \in 0..MaxModuleFiles :
                     ModuleFilesAre(<<>>, n, IF m = "folder" THEN <<"/">> ELSE <<>>,
                                    MaxManifestImports)
             ELSE \E n \in 0..MaxFiles : FilesAre(n, MaxManifestNodes, <<>>)
    /\ store = InitialState
    /\ reply = Null
    /\ threshold = DefaultThreshold
    /\ importerPath = <<>>
    /\ importPath = <<>>
    /\ allFilePaths = {}
    /\ lineCount = 1
    /\ engine = NoEngine
    /\ keywordArray = <<>>
    /\ filesToAnalyze = <<>>

\* One turn of the loop over the archive entries (the folder files): the
\* content is read and the file is pushed.
ReadManifestFile ==
    /\ op = "reading"
    /\ Len(filesToAnalyze) < Len(files)
    /\ filesToAnalyze' = Append(filesToAnalyze, files[Len(filesToAnalyze) + 1])
    /\ UNCHANGED <<op, files, targetFuncName, code, result, calledFunctionNames, pass2,
                   nodePath, dependencyMap, params, isElectron, store, reply,
                   threshold, importerPath, importPath, allFilePaths, lineCount,
                   engine, keywordArray>>

\* As AnalyzeManifest below, entered after any turn of the loop.
AnalyzeManifestEarly ==
    /\ op = "reading"
    /\ allFilePaths' = IF params.analysisMode = "module" THEN pathsOf(filesToAnalyze)
                       ELSE allFilePaths
    /\ result' = IF isElectron
                 THEN runAnalysisMain(params,
                                      IF filesToAnalyze = <<>> THEN NoSourceFilesFound
                                      ELSE NullName,
                                      filesToAnalyze, allFilePaths')
                 ELSE runWebAnalysis(params,
                                     IF filesToAnalyze = <<>> THEN NoFilesToAnalyze
                                     ELSE NullName,
                                     filesToAnalyze, allFilePaths')
    /\ engine' = result'.engine
    /\ op' = "analysed"
    /\ UNCHANGED <<files, targetFuncName, code, calledFunctionNames, pass2, nodePath,
                   dependencyMap, params, isElectron, store, reply, threshold,
                   importerPath, importPath, lineCount, keywordArray, filesToAnalyze>>

\* The statements after the loop: the check of the length and the branch of
\* the analysis mode, in runWebAnalysis and in the "run-analysis" handler.
AnalyzeManifest ==
    /\ op = "reading"
    /\ Len(filesToAnalyze) = Len(files)
    /\ allFilePaths' = IF params.analysisMode = "module" THEN pathsOf(filesToAnalyze)
                       ELSE allFilePaths
    /\ result' = IF isElectron
                 THEN runAnalysisMain(params,
                                      IF filesToAnalyze = <<>> THEN NoSourceFilesFound
                                      ELSE NullName,
                                      filesToAnalyze, allFilePaths')
                 ELSE runWebAnalysis(params,
                                     IF filesToAnalyze = <<>> THEN NoFilesToAnalyze
                                     ELSE NullName,
                                     filesToAnalyze, allFilePaths')
    /\ engine' = result'.engine
    /\ op' = "analysed"
    /\ UNCHANGED <<files, targetFuncName, code, calledFunctionNames, pass2, nodePath,
                   dependencyMap, params, isElectron, store, reply, threshold,
                   importerPath, importPath, lineCount, keywordArray, filesToAnalyze>>

NextManifest == ReadManifestFile \/ AnalyzeManifest

SpecManifest == InitManifest /\ [][NextManifest]_vars

\* C27: dependency resolution or module-graph building is entered only
\* with the whole manifest in filesToAnalyze: while files are still to be
\* read no analysis step has started, and the step that starts works on all
\* the files.
C27_WholeManifestBeforeAnalysis ==
    /\ Len(filesToAnalyze) < Len(files) => engine = NoEngine /\ result = Null
    /\ engine # NoEngine => filesToAnalyze = files

\* An analysis has started on a manifest of two files.
C27_Witness ==
    /\ engine # NoEngine
    /\ Len(files) = 2
    /\ filesToAnalyze = files

====
